---- MODULE Spec2Model ----
(***************************************************************************)
(* Model of the datahub search endpoint (GET /api/datasets/search), the    *)
(* API-key middleware in front of it, the datasets table with its          *)
(* search_vector trigger, the storage error classifier, the catalog        *)
(* endpoints (/api/datasets, /api/datasets/{id}, /api/datasets/stats) and  *)
(* the API-key management script.                                          *)
(*                                                                         *)
(* A string whose characters matter (it is parsed, split, tokenised or     *)
(* compared by trigrams) is a tuple of one-character strings; JavaScript   *)
(* null / SQL NULL is the tuple Null, which is no such string.  A          *)
(* JavaScript number is a record [nan, val], so that NaN is a value.       *)
(***************************************************************************)
EXTENDS Integers, Sequences, FiniteSets, Bags, TLC

VARIABLES
  datasets,      \* the datasets table: a set of rows
  api_keys,      \* the api_keys table: a set of rows
  env,           \* process.env: DISABLE_API_KEY_AUTH and NODE_ENV
  pendingTouch,  \* ids of api keys with a last_used_at update in flight
  pc,            \* position of the search GET handler
  searchParams,  \* request.nextUrl.searchParams of the request in progress
  local,         \* q, source_type, status, owner, tags, fuzzy, limit, offset
  conditions,    \* the handler's conditions array
  params,        \* the handler's params array
  paramIndex,    \* the handler's paramIndex counter
  total,         \* the handler's total, a JavaScript number
  issued,        \* queries sent to the datasets table for this request
  thrown,        \* the error caught by the handler, if any
  response,      \* the response returned for this request
  error,         \* input of the error classifier (SpecErr)
  errMsg,        \* its output (SpecErr)
  clock,         \* the wall clock new Date() reads, in milliseconds
  calls,         \* invocations of catalog handlers suspended at an await
  returned,      \* the catalog invocation that returned last
  assigned,      \* the ids that have been inserted into datasets so far
  uuids,         \* the number of randomUUID() calls so far
  keyGen,        \* the number of API keys generated so far
  revoked,       \* the hashes of the API keys that have been revoked so far
  authCall,      \* the call of requireApiKey / validateApiKey in progress
  boxQuery,      \* SearchBox: its query state, the text of the input
  url,           \* the q of the page URL, searchParams.get("q") || ""
  timeout,       \* SearchBox: milliseconds left on its timer, <<>> without one
  pushed,        \* the q of every URL given to router.push, in order
  navigated,     \* how many of the pushes have become the page URL
  quiet,         \* milliseconds since the input last changed, up to DebounceMs
  burst,         \* the number of pushes since the input last changed
  loads,         \* DashboardContent: the loadData invocations in flight
  shown          \* DashboardContent: datasets, total, error and loading

\* the state of the search handler and of the error classifier
searchVars == <<pc, searchParams, local, conditions, params, paramIndex, total,
                issued, thrown, response, error, errMsg>>

\* the state of the catalog handlers
catalogVars == <<clock, calls, returned, assigned, uuids>>

\* the state of the API-key management
keyVars == <<keyGen, revoked, authCall>>

\* the state of the dashboard page
uiVars == <<boxQuery, url, timeout, pushed, navigated, quiet, burst, loads,
            shown>>

vars == <<datasets, api_keys, env, pendingTouch, searchVars, catalogVars,
          keyVars, uiVars>>

-----------------------------------------------------------------------------
(* Bounds of the model *)

\* the most rows the datasets table holds
MaxRows == 2

-----------------------------------------------------------------------------
(* Strings and JavaScript values *)

Null == <<"null">>

Digits == {"0", "1", "2", "3", "4", "5", "6", "7", "8", "9"}

DigitVal(c) ==
  CASE c = "0" -> 0 [] c = "1" -> 1 [] c = "2" -> 2 [] c = "3" -> 3
    [] c = "4" -> 4 [] c = "5" -> 5 [] c = "6" -> 6 [] c = "7" -> 7
    [] c = "8" -> 8 [] c = "9" -> 9

DigitChar(d) ==
  CASE d = 0 -> "0" [] d = 1 -> "1" [] d = 2 -> "2" [] d = 3 -> "3"
    [] d = 4 -> "4" [] d = 5 -> "5" [] d = 6 -> "6" [] d = 7 -> "7"
    [] d = 8 -> "8" [] d = 9 -> "9"

NaN == [nan |-> TRUE, val |-> 0]
Num(n) == [nan |-> FALSE, val |-> n]

\* JavaScript truthiness of a string | null
Truthy(s) == s # Null /\ s # <<>>

\* s || d
OrDefault(s, d) == IF Truthy(s) THEN s ELSE d

RECURSIVE TrimStart(_)
TrimStart(s) ==
  IF s # <<>> /\ Head(s) = " " THEN TrimStart(Tail(s)) ELSE s

RECURSIVE ParseDigits(_, _, _)
ParseDigits(s, acc, seen) ==
  IF s # <<>> /\ Head(s) \in Digits
    THEN ParseDigits(Tail(s), acc * 10 + DigitVal(Head(s)), TRUE)
    ELSE IF seen THEN Num(acc) ELSE NaN

\* parseInt(s), radix 10: leading blanks, an optional sign, then the longest
\* prefix of digits; NaN when there is no digit
parseInt(s) ==
  LET t == TrimStart(s)
      signed == t # <<>> /\ Head(t) \in {"-", "+"}
      n == ParseDigits(IF signed THEN Tail(t) ELSE t, 0, FALSE)
  IN  IF n.nan THEN NaN
      ELSE IF signed /\ Head(t) = "-" THEN Num(0 - n.val) ELSE n

\* Math.min(a, b): NaN when either argument is NaN
MathMin(a, b) ==
  IF a.nan \/ b.nan THEN NaN
  ELSE IF a.val <= b.val THEN a ELSE b

RECURSIVE NatToString(_)
NatToString(n) ==
  IF n < 10 THEN <<DigitChar(n)>>
  ELSE Append(NatToString(n \div 10), DigitChar(n % 10))

RECURSIVE SplitAcc(_, _, _)
SplitAcc(s, sep, cur) ==
  IF s = <<>> THEN <<cur>>
  ELSE IF Head(s) = sep THEN <<cur>> \o SplitAcc(Tail(s), sep, <<>>)
  ELSE SplitAcc(Tail(s), sep, Append(cur, Head(s)))

\* s.split(sep) for a one-character separator
Split(s, sep) == SplitAcc(s, sep, <<>>)

Range(s) == {s[i] : i \in DOMAIN s}

-----------------------------------------------------------------------------
(* The store: full-text search and trigram similarity of PostgreSQL *)

w_data == <<"d", "a", "t", "a">>
w_dat == <<"d", "a", "t">>
w_docs == <<"d", "o", "c", "s">>
w_doc == <<"d", "o", "c">>
w_the == <<"t", "h", "e">>
w_ann == <<"a", "n", "n">>
w_bob == <<"b", "o", "b">>
w_eng == <<"e", "n", "g">>
w_fin == <<"f", "i", "n">>
w_wiki == <<"w", "i", "k", "i">>
w_jira == <<"j", "i", "r", "a">>
w_active == <<"a", "c", "t", "i", "v", "e">>
w_archived == <<"a", "r", "c", "h", "i", "v", "e", "d">>

\* the words of a text: its maximal runs of non-blank characters
Tokens(text) == {w \in Range(Split(text, " ")) : w # <<>>}

StopWords == {w_the}

\* the 'english' dictionary, reduced to its plural rule
Stem(w) ==
  IF Len(w) > 2 /\ w[Len(w)] = "s" THEN SubSeq(w, 1, Len(w) - 1) ELSE w

\* coalesce(x, '')
Coalesce(x) == IF x = Null THEN <<>> ELSE x

RECURSIVE Join(_, _)
\* array_to_string(arr, sep)
Join(arr, sep) ==
  IF arr = <<>> THEN <<>>
  ELSE IF Len(arr) = 1 THEN arr[1]
  ELSE arr[1] \o <<sep>> \o Join(Tail(arr), sep)

\* to_tsvector('english', text): the set of lexemes of the text
to_tsvector(text) == {Stem(w) : w \in Tokens(text) \ StopWords}

\* setweight(vector, weight)
setweight(vector, weight) == {[lexeme |-> l, weight |-> weight] : l \in vector}

\* plainto_tsquery('english', q): the lexemes of q, all of which must match
plainto_tsquery(q) == {Stem(w) : w \in Tokens(q) \ StopWords}

\* vector @@ query; an empty query matches nothing
TsMatch(vector, query) ==
  /\ query # {}
  /\ \A l \in query : \E e \in vector : e.lexeme = l

\* the rank weights of ts_rank for the labels D, C, B, A, in thousandths
RankWeight(label) ==
  CASE label = "A" -> 607 [] label = "B" -> 243
    [] label = "C" -> 121 [] label = "D" -> 61

RECURSIVE SumWeights(_)
SumWeights(entries) ==
  IF entries = {} THEN 0
  ELSE LET e == CHOOSE x \in entries : TRUE
       IN  RankWeight(e.weight) + SumWeights(entries \ {e})

\* ts_rank(vector, query), in thousandths
ts_rank(vector, query) == SumWeights({e \in vector : e.lexeme \in query})

\* the trigrams of pg_trgm: each word padded with two blanks before and one after
WordTrigrams(w) ==
  LET p == <<" ", " ">> \o w \o <<" ">>
  IN  {SubSeq(p, i, i + 2) : i \in 1..(Len(p) - 2)}

Trigrams(text) == UNION {WordTrigrams(w) : w \in Tokens(text)}

\* similarity(a, b), in thousandths
similarity(a, b) ==
  LET ta == Trigrams(a)
      tb == Trigrams(b)
  IN  IF ta \cup tb = {} THEN 0
      ELSE (1000 * Cardinality(ta \cap tb)) \div Cardinality(ta \cup tb)

\* pg_trgm.similarity_threshold, the default 0.3, in thousandths
similarity_threshold == 300

\* a % b
TrgmMatch(a, b) == similarity(a, b) >= similarity_threshold

\* GREATEST(a, b)
Greatest(a, b) == IF a >= b THEN a ELSE b

\* the trigger datasets_search_vector_update, BEFORE INSERT OR UPDATE
datasets_search_vector_update(new) ==
  [new EXCEPT !.search_vector =
     setweight(to_tsvector(Coalesce(new.name)), "A")
       \cup setweight(to_tsvector(Coalesce(new.description)), "B")
       \cup setweight(to_tsvector(Coalesce(Join(new.tags, " "))), "C")
       \cup setweight(to_tsvector(Coalesce(new.owner)), "D")]

\* a row of the datasets table as the trigger leaves it
Row(id, name, description, source_type, status, owner, tags) ==
  datasets_search_vector_update(
    [id |-> id, name |-> name, description |-> description,
     source_type |-> source_type, status |-> status, owner |-> owner,
     tags |-> tags, search_vector |-> {}])

\* the rows the table is populated from
Catalogue ==
  { Row(1, w_data, Null, w_wiki, w_archived, w_ann, <<w_eng>>),
    Row(2, w_docs, w_the \o <<" ">> \o w_data, w_jira, w_active, Null,
        <<w_fin, w_eng>>),
    Row(3, w_data, w_dat, w_wiki, w_active, w_bob, <<>>) }

-----------------------------------------------------------------------------
(* Errors and their classification (lib/errors) *)

\* a property the error object does not have
Absent == "<absent>"
\* a property value that is not a string
NonString == "<non-string>"

\* a thrown value: kind is what typeof / instanceof see
NoError ==
  [kind |-> "none", code |-> Absent, column |-> Absent, table |-> Absent,
   constraint |-> Absent, message |-> Absent]

\* v || d for a property value
OrElse(v, d) == IF v # Absent /\ v # "" THEN v ELSE d

IsObject(e) == e.kind \in {"object", "Error"}

\* a message is the sequence of the pieces it is concatenated from
\* faulty variant: the message of the error is passed on whenever it has one
getDatabaseErrorMessageLeaky(e) ==
  IF IsObject(e) /\ e.message \notin {Absent, NonString}
    THEN <<e.message>>
  ELSE <<"An unknown error occurred">>

getDatabaseErrorMessage(e) ==
  IF IsObject(e) /\ e.code = "23502"
    THEN <<"Missing required field: ", OrElse(e.column, "unknown column"),
           " in ", OrElse(e.table, "unknown table")>>
  ELSE IF IsObject(e) /\ e.code = "23505"
    THEN <<"Duplicate entry: a record with this value already exists">>
  ELSE IF IsObject(e) /\ e.code = "23503"
    THEN <<"Invalid reference: the referenced record does not exist">>
  ELSE IF IsObject(e) /\ e.code = "23514"
    THEN <<"Invalid data: the value does not meet validation requirements">>
  ELSE IF IsObject(e) /\ e.message \notin {Absent, NonString}
    THEN <<e.message>>
  ELSE IF e.kind = "Error"
    THEN <<e.message>>
  ELSE <<"An unknown error occurred">>

\* the version of lib/errors that names the violated constraint
getDatabaseErrorMessageConstraint(e) ==
  IF IsObject(e) /\ e.code = "23502"
    THEN <<"Missing required field: ", OrElse(e.column, "unknown column"),
           " in ", OrElse(e.table, "unknown table")>>
  ELSE IF IsObject(e) /\ e.code = "23505"
    THEN <<"Duplicate entry violates ",
           OrElse(e.constraint, "unique constraint")>>
  ELSE IF IsObject(e) /\ e.code = "23503"
    THEN <<"Invalid reference violates ",
           OrElse(e.constraint, "foreign key constraint")>>
  ELSE IF IsObject(e) /\ e.code = "23514"
    THEN <<"Data violates ", OrElse(e.constraint, "check constraint")>>
  ELSE IF IsObject(e) /\ e.message \notin {Absent, NonString}
    THEN <<e.message>>
  ELSE IF e.kind = "Error"
    THEN <<e.message>>
  ELSE <<"An unknown error occurred">>

\* the classifier imported from "@/lib/errors", in the build named version
LibErrors(version, e) ==
  IF version = "fixed" THEN getDatabaseErrorMessage(e)
  ELSE getDatabaseErrorMessageConstraint(e)

Versions == {"fixed", "constraint"}

-----------------------------------------------------------------------------
(* API keys (lib/auth, lib/middleware) *)

key_1 == <<"d", "h", "_", "1">>
key_2 == <<"d", "h", "_", "2">>
key_3 == <<"d", "h", "_", "3">>

\* hashApiKey: SHA-256, an injection that is not the identity
hashApiKey(key) == <<"sha256">> \o key

\* faulty variant: the lookup selects by key_hash alone, whatever the status
KeyRowsAnyStatus(key) == {k \in api_keys : k.key_hash = hashApiKey(key)}

\* the rows selected by validateApiKey's lookup
ActiveKeyRows(key) ==
  {k \in api_keys : k.key_hash = hashApiKey(key) /\ k.status = "active"}

\* extractApiKey: headers.get("x-datahub-api-key")
extractApiKey(headers) == headers["x-datahub-api-key"]

\* faulty variant: the flag alone disables the check, in production too
AuthBypassedEverywhere == env.DISABLE_API_KEY_AUTH = "true"

\* lib/middleware line 88
AuthBypassed ==
  env.DISABLE_API_KEY_AUTH = "true" /\ env.NODE_ENV # "production"

MissingKeyResponse ==
  [status |-> 401,
   body |-> [error |-> <<"Missing API key. Please provide a valid API key in the X-DataHub-API-Key header.">>]]

InvalidKeyResponse ==
  [status |-> 401, body |-> [error |-> <<"Invalid or inactive API key.">>]]

\* no response yet
Pending == [status |-> 0, body |-> [pending |-> TRUE]]


\* faulty variant: a lookup that fails is taken for a match
validateApiKeyFailOpen(key, lookupFails) ==
  IF ~Truthy(key) THEN {}
  ELSE IF lookupFails
    THEN {[id |-> 0, key_hash |-> hashApiKey(key), status |-> "active",
           last_used_at |-> 0]}
  ELSE LET rows == ActiveKeyRows(key)
       IN  IF rows = {} THEN {} ELSE {CHOOSE k \in rows : TRUE}

\* the number of lookups validateApiKey sends to the api_keys table
validateApiKeyLookups(key) == IF ~Truthy(key) THEN 0 ELSE 1

\* validateApiKey: the rows it returns, none standing for null
validateApiKey(key, lookupFails) ==
  IF ~Truthy(key) THEN {}
  ELSE IF lookupFails THEN {}
  ELSE LET rows == ActiveKeyRows(key)
       IN  IF rows = {} THEN {} ELSE {CHOOSE k \in rows : TRUE}

\* requireApiKey: the 401 response, or Pending standing for null, and the key
\* whose last_used_at update it started
requireApiKey(headers, lookupFails) ==
  IF AuthBypassed THEN [authError |-> Pending, validKey |-> {}]
  ELSE LET apiKey == extractApiKey(headers)
       IN  IF ~Truthy(apiKey)
             THEN [authError |-> MissingKeyResponse, validKey |-> {}]
           ELSE LET validKey == validateApiKey(apiKey, lookupFails)
                IN  IF validKey = {}
                      THEN [authError |-> InvalidKeyResponse, validKey |-> {}]
                    ELSE [authError |-> Pending, validKey |-> validKey]

-----------------------------------------------------------------------------
(* The search handler: query construction *)

w_true == <<"t", "r", "u", "e">>
w_20 == <<"2", "0">>
w_0 == <<"0">>

NoParams ==
  [q |-> Null, source_type |-> Null, status |-> Null, owner |-> Null,
   tags |-> Null, fuzzy |-> Null, limit |-> Null, offset |-> Null]

NoLocal ==
  [q |-> Null, source_type |-> Null, status |-> Null, owner |-> Null,
   tags |-> Null, fuzzy |-> FALSE, limit |-> NaN, offset |-> NaN]

\* the limit of lines 17: Math.min(parseInt(limit || "20"), 100)
ParseLimit(raw) == MathMin(parseInt(OrDefault(raw, w_20)), Num(100))

\* the offset of line 18: parseInt(offset || "0")
ParseOffset(raw) == parseInt(OrDefault(raw, w_0))

\* lines 11-18
ReadParams(sp) ==
  [q |-> sp.q, source_type |-> sp.source_type, status |-> sp.status,
   owner |-> sp.owner, tags |-> sp.tags, fuzzy |-> (sp.fuzzy = w_true),
   limit |-> ParseLimit(sp.limit), offset |-> ParseOffset(sp.offset)]

\* lines 29-39: the text-match condition, bound to $1
TextCondition(fuzzy) ==
  [kind |-> IF fuzzy THEN "trgm_or_tsquery" ELSE "tsquery",
   column |-> "search_vector", ph |-> 1]

\* conditions.push(`column op $${paramIndex++}`); params.push(value)
PushFilter(b, supplied, kind, column, value) ==
  IF supplied
    THEN [conditions |->
            Append(b.conditions,
                   [kind |-> kind, column |-> column, ph |-> b.paramIndex]),
          params |-> Append(b.params, value),
          paramIndex |-> b.paramIndex + 1]
    ELSE b

\* faulty variant: in fuzzy mode the filters are not added
BuildQueryFuzzyUnfiltered(l) ==
  LET b0 == [conditions |-> <<TextCondition(l.fuzzy)>>, params |-> <<l.q>>,
             paramIndex |-> 2]
      b1 == PushFilter(b0, Truthy(l.source_type) /\ ~l.fuzzy, "eq",
                       "source_type", l.source_type)
      b2 == PushFilter(b1, Truthy(l.status) /\ ~l.fuzzy, "eq", "status",
                       l.status)
      b3 == PushFilter(b2, Truthy(l.owner) /\ ~l.fuzzy, "eq", "owner", l.owner)
  IN  PushFilter(b3, Truthy(l.tags) /\ ~l.fuzzy, "overlap", "tags",
                 Split(l.tags, ","))

\* lines 25-58: conditions, params and paramIndex after the filters
BuildQuery(l) ==
  LET b0 == [conditions |-> <<TextCondition(l.fuzzy)>>, params |-> <<l.q>>,
             paramIndex |-> 2]
      b1 == PushFilter(b0, Truthy(l.source_type), "eq", "source_type",
                       l.source_type)
      b2 == PushFilter(b1, Truthy(l.status), "eq", "status", l.status)
      b3 == PushFilter(b2, Truthy(l.owner), "eq", "owner", l.owner)
  IN  PushFilter(b3, Truthy(l.tags), "overlap", "tags", Split(l.tags, ","))

\* lines 67-69: the score expression of the page query
ScoreExpr(fuzzy) == IF fuzzy THEN "greatest" ELSE "ts_rank"

\* faulty variant: only an absent q is rejected, an empty one is searched for
MissingQueryNullOnly(l) == l.q = Null

\* line 20: !q
MissingQuery(l) == ~Truthy(l.q)

MissingQueryResponse ==
  [status |-> 400, body |-> [error |-> <<"Query parameter \"q\" is required">>]]

\* line 87
SearchFailedResponse(message) ==
  [status |-> 500, body |-> [error |-> <<"Search failed: ">> \o message]]

\* lines 79-83
SearchResponse(rows, n, q) ==
  [status |-> 200, body |-> [items |-> rows, total |-> n, query |-> q]]

-----------------------------------------------------------------------------
(* The search handler: what the store does with its queries *)

\* faulty variant: the count query keeps the text-match condition only
CountSqlTextOnly(b) ==
  [sql |-> "count", where |-> SubSeq(b.conditions, 1, 1), score |-> "none",
   limitPh |-> 0, offsetPh |-> 0, params |-> b.params]

\* line 63: SELECT COUNT(*) FROM datasets WHERE ..., with params
CountSql(b) ==
  [sql |-> "count", where |-> b.conditions, score |-> "none",
   limitPh |-> 0, offsetPh |-> 0, params |-> b.params]

\* faulty variant: the page query is passed [...params, offset, limit]
PageSqlOffsetFirst(b, l) ==
  [sql |-> "page", where |-> b.conditions, score |-> ScoreExpr(l.fuzzy),
   limitPh |-> b.paramIndex, offsetPh |-> b.paramIndex + 1,
   params |-> b.params \o <<l.offset, l.limit>>]

\* lines 71-77: the ranked page, with [...params, limit, offset]
PageSql(b, l) ==
  [sql |-> "page", where |-> b.conditions, score |-> ScoreExpr(l.fuzzy),
   limitPh |-> b.paramIndex, offsetPh |-> b.paramIndex + 1,
   params |-> b.params \o <<l.limit, l.offset>>]

\* faulty variant: the fuzzy clause joins similarity and lexical match with AND
EvalConditionConjoined(c, ps, row) ==
  CASE c.kind = "tsquery" ->
         TsMatch(row.search_vector, plainto_tsquery(ps[c.ph]))
    [] c.kind = "trgm_or_tsquery" ->
         /\ TrgmMatch(row.name, ps[c.ph])
         /\ TsMatch(row.search_vector, plainto_tsquery(ps[c.ph]))
    [] c.kind = "eq" ->
         row[c.column] # Null /\ row[c.column] = ps[c.ph]
    [] c.kind = "overlap" ->
         Range(row[c.column]) \cap Range(ps[c.ph]) # {}

\* faulty variant: the tags clause uses <@ (contained by) instead of && (overlap)
EvalConditionContainedBy(c, ps, row) ==
  CASE c.kind = "tsquery" ->
         TsMatch(row.search_vector, plainto_tsquery(ps[c.ph]))
    [] c.kind = "trgm_or_tsquery" ->
         \/ TrgmMatch(row.name, ps[c.ph])
         \/ TsMatch(row.search_vector, plainto_tsquery(ps[c.ph]))
    [] c.kind = "eq" ->
         row[c.column] # Null /\ row[c.column] = ps[c.ph]
    [] c.kind = "overlap" ->
         Range(row[c.column]) \subseteq Range(ps[c.ph])

\* one condition of the WHERE clause on one row; a comparison with NULL is
\* not true
EvalCondition(c, ps, row) ==
  CASE c.kind = "tsquery" ->
         TsMatch(row.search_vector, plainto_tsquery(ps[c.ph]))
    [] c.kind = "trgm_or_tsquery" ->
         \/ TrgmMatch(row.name, ps[c.ph])
         \/ TsMatch(row.search_vector, plainto_tsquery(ps[c.ph]))
    [] c.kind = "eq" ->
         row[c.column] # Null /\ row[c.column] = ps[c.ph]
    [] c.kind = "overlap" ->
         Range(row[c.column]) \cap Range(ps[c.ph]) # {}

\* the rows the WHERE clause of a query selects: its conditions joined by AND
Selected(qy) ==
  {r \in datasets :
     \A i \in DOMAIN qy.where : EvalCondition(qy.where[i], qy.params, r)}

\* relevance_score of a row: the score expression, which reads $1
RelevanceScore(qy, row) ==
  LET rank == ts_rank(row.search_vector, plainto_tsquery(qy.params[1]))
  IN  IF qy.score = "greatest"
        THEN Greatest(similarity(row.name, qy.params[1]), rank)
        ELSE rank

DbError(code, message) ==
  [kind |-> "Error", code |-> code, column |-> Absent, table |-> Absent,
   constraint |-> Absent, message |-> message]

\* the error PostgreSQL raises for the LIMIT and OFFSET it is given, if any:
\* NaN is no bigint, and a negative OFFSET or LIMIT is rejected, in this order
PageArgumentError(qy) ==
  LET lim == qy.params[qy.limitPh]
      off == qy.params[qy.offsetPh]
  IN  IF lim.nan \/ off.nan
        THEN DbError("22P02", "invalid input syntax for type bigint: \"NaN\"")
      ELSE IF off.val < 0
        THEN DbError("2201X", "OFFSET must not be negative")
      ELSE IF lim.val < 0
        THEN DbError("2201W", "LIMIT must not be negative")
      ELSE NoError

\* faulty variant: no ORDER BY, the rows come in any order
Unordered(qy, rows) ==
  LET n == Cardinality(rows)
  IN  {s \in [1..n -> rows] : \A i, j \in 1..n : i # j => s[i] # s[j]}

\* ORDER BY relevance_score DESC: every order of the rows that is descending
\* in score; rows of equal score come in any order
Ordered(qy, rows) ==
  LET n == Cardinality(rows)
  IN  {s \in [1..n -> rows] :
         /\ \A i, j \in 1..n : i # j => s[i] # s[j]
         /\ \A i \in 1..(n - 1) :
              RelevanceScore(qy, s[i]) >= RelevanceScore(qy, s[i + 1])}

\* SELECT *, score AS relevance_score
WithScore(qy, row) ==
  [x \in DOMAIN row \cup {"relevance_score"} |->
     IF x = "relevance_score" THEN RelevanceScore(qy, row) ELSE row[x]]

\* LIMIT and OFFSET applied to an ordered result
PageOf(qy, s) ==
  LET lim == qy.params[qy.limitPh].val
      off == qy.params[qy.offsetPh].val
      last == IF off + lim <= Len(s) THEN off + lim ELSE Len(s)
  IN  [i \in 1..(IF last > off THEN last - off ELSE 0) |->
         WithScore(qy, s[off + i])]

\* failures of the store that no query causes
StoreFailures ==
  { [kind |-> "Error", code |-> Absent, column |-> Absent, table |-> Absent,
     constraint |-> Absent, message |-> "Connection terminated unexpectedly"] }

-----------------------------------------------------------------------------
(* Requests *)

HeaderValues == {Null, <<>>, key_1, key_2, key_3}

Headers == {[h \in {"x-datahub-api-key"} |-> v] : v \in HeaderValues}

QValues == {Null, <<>>, w_dat, w_data, w_doc}
SourceTypeValues == {Null, w_wiki}
StatusValues == {Null, w_active}
OwnerValues == {Null, w_ann}
TagsValues == {Null, <<>>, w_eng \o <<",">> \o w_fin}
FuzzyValues == {Null, w_true}

\* the limit and offset parameters: absent, in range, zero, negative, above
\* the maximum, not numeric
LimitOffsetValues ==
  { <<Null, Null>>, <<<<"1">>, <<"1">>>>, <<<<"0">>, Null>>,
    <<<<"-", "1">>, Null>>, <<<<"1", "5", "0">>, Null>>,
    <<<<"a", "b", "c">>, Null>>, <<Null, <<"2">>>>, <<Null, <<"-", "1">>>>,
    <<Null, <<"x">>>> }

SearchParamValues ==
  { [q |-> q, source_type |-> st, status |-> status, owner |-> owner,
     tags |-> tags, fuzzy |-> fuzzy, limit |-> lo[1], offset |-> lo[2]] :
      q \in QValues, st \in SourceTypeValues, status \in StatusValues,
      owner \in OwnerValues, tags \in TagsValues, fuzzy \in FuzzyValues,
      lo \in LimitOffsetValues }

Envs ==
  { [DISABLE_API_KEY_AUTH |-> "true", NODE_ENV |-> "development"],
    [DISABLE_API_KEY_AUTH |-> "true", NODE_ENV |-> "production"] }

-----------------------------------------------------------------------------
(* The search GET handler, one step per await *)

Built == [conditions |-> conditions, params |-> params, paramIndex |-> paramIndex]

\* lines 7-8: await requireApiKey(request)
GETAuth(headers, lookupFails) ==
  /\ pc = "idle"
  /\ LET auth == requireApiKey(headers, lookupFails)
     IN  /\ pendingTouch' = pendingTouch \cup {k.id : k \in auth.validKey}
         /\ response' = auth.authError
         /\ pc' = IF auth.authError = Pending THEN "parse" ELSE "done"
  /\ UNCHANGED <<datasets, api_keys, env, searchParams, local, conditions,
                 params, paramIndex, total, issued, thrown, error, errMsg,
                 catalogVars, keyVars,
                 uiVars>>

\* lines 10-60: read the parameters, reject a missing q, build the query
GETParse(sp) ==
  /\ pc = "parse"
  /\ searchParams' = sp
  /\ local' = ReadParams(sp)
  /\ IF MissingQuery(local')
       THEN /\ response' = MissingQueryResponse
            /\ pc' = "done"
            /\ UNCHANGED <<conditions, params, paramIndex>>
       ELSE /\ conditions' = BuildQuery(local').conditions
            /\ params' = BuildQuery(local').params
            /\ paramIndex' = BuildQuery(local').paramIndex
            /\ pc' = "count"
            /\ UNCHANGED response
  /\ UNCHANGED <<datasets, api_keys, env, pendingTouch, total, issued, thrown,
                 error, errMsg,
                 catalogVars, keyVars,
                 uiVars>>

\* lines 63-64: the count query answers
GETCount ==
  /\ pc = "count"
  /\ issued' = Append(issued, CountSql(Built))
  /\ total' = parseInt(NatToString(Cardinality(Selected(CountSql(Built)))))
  /\ pc' = "page"
  /\ UNCHANGED <<datasets, api_keys, env, pendingTouch, searchParams, local,
                 conditions, params, paramIndex, thrown, response, error,
                 errMsg,
                 catalogVars, keyVars,
                 uiVars>>

\* faulty variant: a failure is answered with the page left empty and the total
CatchPartial(e) ==
  /\ thrown' = e
  /\ response' = SearchResponse(<<>>, total, local.q)
  /\ pc' = "done"

\* lines 84-88: the catch block
Catch(e) ==
  /\ thrown' = e
  /\ \E version \in Versions :
       response' = SearchFailedResponse(LibErrors(version, e))
  /\ pc' = "done"

\* line 63 throws
GETCountFails(e) ==
  /\ pc = "count"
  /\ issued' = Append(issued, CountSql(Built))
  /\ Catch(e)
  /\ UNCHANGED <<datasets, api_keys, env, pendingTouch, searchParams, local,
                 conditions, params, paramIndex, total, error, errMsg,
                 catalogVars, keyVars,
                 uiVars>>

\* lines 66-83: the page query answers, or the store rejects its arguments
GETPage ==
  /\ pc = "page"
  /\ LET qy == PageSql(Built, local)
     IN  /\ issued' = Append(issued, qy)
         /\ paramIndex' = paramIndex + 1
         /\ IF PageArgumentError(qy) # NoError
              THEN Catch(PageArgumentError(qy))
              ELSE /\ \E s \in Ordered(qy, Selected(qy)) :
                        response' = SearchResponse(PageOf(qy, s), total, local.q)
                   /\ pc' = "done"
                   /\ UNCHANGED thrown
  /\ UNCHANGED <<datasets, api_keys, env, pendingTouch, searchParams, local,
                 conditions, params, total, error, errMsg,
                 catalogVars, keyVars,
                 uiVars>>

\* lines 71-77 throw for a reason of the store's
GETPageFails(e) ==
  /\ pc = "page"
  /\ issued' = Append(issued, PageSql(Built, local))
  /\ paramIndex' = paramIndex + 1
  /\ Catch(e)
  /\ UNCHANGED <<datasets, api_keys, env, pendingTouch, searchParams, local,
                 conditions, params, total, error, errMsg,
                 catalogVars, keyVars,
                 uiVars>>

\* the response has been sent and the invocation is over: the next request
\* starts from fresh locals
GETReturn ==
  /\ pc = "done"
  /\ pc' = "idle"
  /\ searchParams' = NoParams
  /\ local' = NoLocal
  /\ conditions' = <<>>
  /\ params' = <<>>
  /\ paramIndex' = 1
  /\ total' = NaN
  /\ issued' = <<>>
  /\ thrown' = NoError
  /\ response' = Pending
  /\ UNCHANGED <<datasets, api_keys, env, pendingTouch, error, errMsg,
                 catalogVars, keyVars,
                 uiVars>>

\* faulty variant: the UPDATE has no WHERE clause and writes every key
UpdateLastUsedEveryKey(id) ==
  /\ id \in pendingTouch
  /\ pendingTouch' = pendingTouch \ {id}
  /\ api_keys' = {[k EXCEPT !.last_used_at = 1] : k \in api_keys}
  /\ UNCHANGED <<datasets, env, pc, searchParams, local, conditions, params,
                 paramIndex, total, issued, thrown, response, error, errMsg,
                 catalogVars, keyVars,
                 uiVars>>

\* lib/auth lines 58-59: the fire-and-forget UPDATE api_keys SET last_used_at
UpdateLastUsed(id) ==
  /\ id \in pendingTouch
  /\ pendingTouch' = pendingTouch \ {id}
  /\ api_keys' = {IF k.id = id THEN [k EXCEPT !.last_used_at = 1] ELSE k :
                    k \in api_keys}
  /\ UNCHANGED <<datasets, env, pc, searchParams, local, conditions, params,
                 paramIndex, total, issued, thrown, response, error, errMsg,
                 catalogVars, keyVars,
                 uiVars>>

\* lib/auth lines 60-62: the update fails and the failure is logged
UpdateLastUsedFails(id) ==
  /\ id \in pendingTouch
  /\ pendingTouch' = pendingTouch \ {id}
  /\ UNCHANGED <<datasets, api_keys, env, pc, searchParams, local, conditions,
                 params, paramIndex, total, issued, thrown, response, error,
                 errMsg,
                 catalogVars, keyVars,
                 uiVars>>

-----------------------------------------------------------------------------
(* JSON request bodies and the parameters bound to a statement *)

\* a JSON value carries its type; body[field] of an absent field is Undefined
Undefined == [t |-> "undefined"]
JNull == [t |-> "null"]
JStr(s) == [t |-> "string", v |-> s]
JNum(n) == [t |-> "number", v |-> n]
JArr(a) == [t |-> "array", v |-> a]
\* the object {}
JObj == [t |-> "object"]

\* body[field]
Get(body, field) == IF field \in DOMAIN body THEN body[field] ELSE Undefined

\* !v
Falsy(v) ==
  \/ v.t \in {"undefined", "null"}
  \/ (v.t = "string" /\ v.v = <<>>)
  \/ (v.t = "number" /\ v.v = 0)

\* v || d
JsOr(v, d) == IF Falsy(v) THEN d ELSE v

\* JSON.stringify(v)
JSONstringify(v) ==
  CASE v.t = "undefined" -> Null
    [] v.t = "null" -> <<"n", "u", "l", "l">>
    [] v.t = "string" -> <<"\"">> \o v.v \o <<"\"">>
    [] v.t = "number" -> NatToString(v.v)
    [] v.t = "object" -> <<"{", "}">>
    [] v.t = "array" ->
         <<"[">> \o Join([i \in DOMAIN v.v |-> <<"\"">> \o v.v[i] \o <<"\"">>], ",")
           \o <<"]">>

\* the value node-pg binds for a JavaScript value: undefined and null are NULL
ToParam(v) ==
  IF v.t \in {"undefined", "null"} THEN Null
  ELSE IF v.t = "object" THEN JSONstringify(v)
  ELSE v.v

\* a body that is no JSON: request.json() throws
InvalidJson == [t |-> "invalid"]

InvalidJsonError ==
  [kind |-> "Error", code |-> Absent, column |-> Absent, table |-> Absent,
   constraint |-> Absent, message |-> "Unexpected end of JSON input"]

\* a body that is the JSON value null: reading a field of it throws
NullBodyError ==
  [kind |-> "Error", code |-> Absent, column |-> Absent, table |-> Absent,
   constraint |-> Absent, message |-> "Cannot read properties of null"]

\* what the handler throws before its statement for such bodies
BodyError(body) == IF body = InvalidJson THEN InvalidJsonError ELSE NullBodyError

\* a request without a body
NoBody == [none |-> Undefined]

-----------------------------------------------------------------------------
(* The datasets table: INSERT, UPDATE and its constraints *)

w_s3 == <<"s", "3">>
w_path == <<"/", "d">>
w_unknown == <<"u", "n", "k", "n", "o", "w", "n">>
w_v100 == <<"1", ".", "0", ".", "0">>
w_v10 == <<"1", ".", "0">>

\* faulty variant: storage_path is declared without NOT NULL
NotNullColumnsButPath == <<"id", "name", "source_type", "storage_backend">>

\* the columns declared NOT NULL, the primary key among them
NotNullColumns == <<"id", "name", "source_type", "storage_backend", "storage_path">>

\* error 23502 for the first NOT NULL column of the row that is NULL, if any
NotNullViolation(row) ==
  LET IsNull(c) == row[c] = Null
      bad == SelectSeq(NotNullColumns, IsNull)
  IN  IF bad = <<>> THEN NoError
      ELSE [kind |-> "Error", code |-> "23502", column |-> bad[1],
            table |-> "datasets", constraint |-> Absent,
            message |-> "null value violates not-null constraint"]

\* error 23505 of the primary key
UniqueViolation ==
  [kind |-> "Error", code |-> "23505", column |-> Absent, table |-> "datasets",
   constraint |-> "datasets_pkey",
   message |-> "duplicate key value violates unique constraint"]

\* the error an INSERT of the row raises, if any
InsertError(row) ==
  IF NotNullViolation(row) # NoError THEN NotNullViolation(row)
  ELSE IF \E r \in datasets : r.id = row.id THEN UniqueViolation
  ELSE NoError

\* the n-th value randomUUID() returns: one no earlier call returned and no
\* client has sent
randomUUID(n) == <<"u", DigitChar(n)>>

\* /api/datasets POST, lines 234-256: the values of the INSERT
InsertValues(id, body, now) ==
  [id |-> id,
   name |-> ToParam(Get(body, "name")),
   version |-> ToParam(JsOr(Get(body, "version"), JStr(w_v100))),
   description |-> ToParam(JsOr(Get(body, "description"), JNull)),
   source_type |-> ToParam(Get(body, "source_type")),
   source_config |-> JSONstringify(JsOr(Get(body, "source_config"), JObj)),
   collected_at |-> now,
   collected_by |-> ToParam(JsOr(Get(body, "collected_by"), JStr(w_unknown))),
   collection_params |->
     JSONstringify(JsOr(Get(body, "collection_params"), JObj)),
   item_count |-> ToParam(JsOr(Get(body, "item_count"), JNum(0))),
   total_size_bytes |-> ToParam(JsOr(Get(body, "total_size_bytes"), JNum(0))),
   storage_backend |-> ToParam(Get(body, "storage_backend")),
   storage_path |-> ToParam(Get(body, "storage_path")),
   host |-> ToParam(JsOr(Get(body, "host"), JNull)),
   owner |-> ToParam(JsOr(Get(body, "owner"), JNull)),
   tags |-> ToParam(JsOr(Get(body, "tags"), JArr(<<>>))),
   status |-> ToParam(JsOr(Get(body, "status"), JStr(w_active))),
   created_at |-> now,
   updated_at |-> now,
   checksum |-> ToParam(JsOr(Get(body, "checksum"), JNull)),
   schema_version |-> w_v10,
   search_vector |-> {}]

\* faulty variant: source_type is allow-listed too
allowedFieldsAndSourceType ==
  <<"name", "version", "description", "source_type", "source_config",
    "collection_params", "item_count", "total_size_bytes", "storage_path",
    "host", "owner", "tags", "status", "checksum">>

\* /api/datasets/{id} PATCH, lines 32-46
allowedFields ==
  <<"name", "version", "description", "source_config", "collection_params",
    "item_count", "total_size_bytes", "storage_path", "host", "owner", "tags",
    "status", "checksum">>

\* lines 48-57: the allow-listed fields the body has, in the order of the list
Updates(body) ==
  LET Present(field) == Get(body, field) # Undefined
  IN  SelectSeq(allowedFields, Present)

\* lines 51-55: the value bound for a field
UpdateValue(body, field) ==
  IF field \in {"source_config", "collection_params"}
    THEN JSONstringify(body[field])
    ELSE ToParam(body[field])

RECURSIVE SetFields(_, _, _)
\* UPDATE ... SET field = value for the fields, in their order
SetFields(row, fields, body) ==
  IF fields = <<>> THEN row
  ELSE SetFields([row EXCEPT ![Head(fields)] = UpdateValue(body, Head(fields))],
                 Tail(fields), body)

\* faulty variant: the trigger fires on INSERT only
UpdatedRowUntriggered(row, body, now) ==
  [SetFields(row, Updates(body), body) EXCEPT !.updated_at = now]

\* lines 63-70: the row as the UPDATE and the trigger leave it
UpdatedRow(row, body, now) ==
  datasets_search_vector_update(
    [SetFields(row, Updates(body), body) EXCEPT !.updated_at = now])

-----------------------------------------------------------------------------
(* The catalog handlers: /api/datasets POST and /api/datasets/{id} *)

\* the most handlers suspended at an await at one time
MaxCalls == 2
\* the last reading of the clock
MaxClock == 1
\* the most ids randomUUID() generates
MaxUuids == 1

\* no catalog invocation has returned yet
NoneReturned ==
  [op |-> "none", id |-> Null, headers |-> [h \in {"x-datahub-api-key"} |-> Null],
   body |-> NoBody, now |-> 0, response |-> Pending, queries |-> 0]

\* an invocation: its request, the clock value it read (0 when it reads
\* none), the number of statements it has sent to the datasets table, and
\* the results it holds
Call(op, id, headers, body, now, queries) ==
  [op |-> op, id |-> id, headers |-> headers, body |-> body, now |-> now,
   queries |-> queries, acc |-> NoBody]

\* the invocation returns the response
Return(c, resp, queries) ==
  returned' = [op |-> c.op, id |-> c.id, headers |-> c.headers, body |-> c.body,
           now |-> c.now, response |-> resp, queries |-> queries]

ErrorResponse(status, text) == [status |-> status, body |-> [error |-> <<text>>]]

\* the catch blocks: `${prefix}: ${getDatabaseErrorMessage(error)}`, status 500
FailedResponse(prefix, e) ==
  {[status |-> 500, body |-> [error |-> <<prefix>> \o LibErrors(version, e)]] :
     version \in Versions}

\* the wall clock advances
Tick ==
  /\ clock < MaxClock
  /\ clock' = clock + 1
  /\ UNCHANGED <<datasets, api_keys, env, pendingTouch, searchVars, calls, returned,
                 assigned, uuids, keyVars,
                 uiVars>>

\* POST lines 220-223: the body is read, the id chosen and the clock read
POSTBegin(headers, body) ==
  /\ BagCardinality(calls) < MaxCalls
  /\ IF body \in {InvalidJson, JNull}
       THEN /\ \E resp \in FailedResponse("Failed to create dataset: ",
                                          BodyError(body)) :
                 Return(Call("POST", Null, headers, body, 0, 0), resp, 0)
            /\ UNCHANGED <<calls, uuids>>
       ELSE LET generated == Falsy(Get(body, "id"))
                id == IF generated THEN randomUUID(uuids + 1)
                      ELSE ToParam(Get(body, "id"))
            IN  /\ generated => uuids < MaxUuids
                /\ uuids' = IF generated THEN uuids + 1 ELSE uuids
                /\ calls' = calls (+) SetToBag({Call("POST", id, headers, body,
                                                     clock, 0)})
                /\ UNCHANGED returned
  /\ UNCHANGED <<datasets, api_keys, env, pendingTouch, searchVars, clock,
                 assigned, keyVars,
                 uiVars>>

\* POST lines 225-264: the INSERT answers or throws
POSTInsert(c) ==
  /\ BagIn(c, calls) /\ c.op = "POST"
  /\ calls' = calls (-) SetToBag({c})
  /\ LET row == InsertValues(c.id, c.body, c.now)
         e == InsertError(row)
     IN  \/ /\ e = NoError
            /\ datasets' = datasets \cup {datasets_search_vector_update(row)}
            /\ assigned' = assigned \cup {c.id}
            /\ Return(c, [status |-> 201,
                          body |-> datasets_search_vector_update(row)], 1)
         \/ /\ \E f \in (IF e = NoError THEN StoreFailures ELSE {e}) :
                 \E resp \in FailedResponse("Failed to create dataset: ", f) :
                   Return(c, resp, 1)
            /\ UNCHANGED <<datasets, assigned>>
  /\ UNCHANGED <<api_keys, env, pendingTouch, searchVars, clock, uuids, keyVars,
                 uiVars>>

\* faulty variant: the UPDATE is sent whatever the body holds
PATCHBeginUnchecked(headers, id, body) ==
  /\ BagCardinality(calls) < MaxCalls
  /\ IF body \in {InvalidJson, JNull}
       THEN /\ \E resp \in FailedResponse("Failed to update dataset: ",
                                          BodyError(body)) :
                 Return(Call("PATCH", id, headers, body, 0, 0), resp, 0)
            /\ UNCHANGED calls
       ELSE /\ calls' = calls (+) SetToBag({Call("PATCH", id, headers, body,
                                                 clock, 0)})
            /\ UNCHANGED returned
  /\ UNCHANGED <<datasets, api_keys, env, pendingTouch, searchVars, clock,
                 assigned, uuids, keyVars,
                 uiVars>>

\* PATCH lines 24-65: the body is read, the updates collected, the clock read
PATCHBegin(headers, id, body) ==
  /\ BagCardinality(calls) < MaxCalls
  /\ IF body \in {InvalidJson, JNull}
       THEN /\ \E resp \in FailedResponse("Failed to update dataset: ",
                                          BodyError(body)) :
                 Return(Call("PATCH", id, headers, body, 0, 0), resp, 0)
            /\ UNCHANGED calls
       ELSE IF Updates(body) = <<>>
         THEN /\ Return(Call("PATCH", id, headers, body, 0, 0),
                        ErrorResponse(400, "No fields to update"), 0)
              /\ UNCHANGED calls
         ELSE /\ calls' = calls (+) SetToBag({Call("PATCH", id, headers, body,
                                                   clock, 0)})
              /\ UNCHANGED returned
  /\ UNCHANGED <<datasets, api_keys, env, pendingTouch, searchVars, clock,
                 assigned, uuids, keyVars,
                 uiVars>>

\* PATCH lines 67-81: the UPDATE answers or throws
PATCHUpdate(c) ==
  /\ BagIn(c, calls) /\ c.op = "PATCH"
  /\ calls' = calls (-) SetToBag({c})
  /\ LET target == {r \in datasets : r.id = c.id}
         new == {UpdatedRow(r, c.body, c.now) : r \in target}
         errors == {NotNullViolation(r) : r \in new} \ {NoError}
     IN  \/ /\ target = {}
            /\ Return(c, ErrorResponse(404, "Dataset not found"), 1)
            /\ UNCHANGED datasets
         \/ /\ target # {} /\ errors = {}
            /\ datasets' = (datasets \ target) \cup new
            /\ \E r \in new : Return(c, [status |-> 200, body |-> r], 1)
         \/ /\ \E f \in (IF errors = {} THEN StoreFailures ELSE errors) :
                 \E resp \in FailedResponse("Failed to update dataset: ", f) :
                   Return(c, resp, 1)
            /\ UNCHANGED datasets
  /\ UNCHANGED <<api_keys, env, pendingTouch, searchVars, clock, assigned,
                 uuids, keyVars,
                 uiVars>>

\* faulty variant: the row is kept and marked deleted
DELETEMarksDeleted(headers, id) ==
  /\ LET c == Call("DELETE", id, headers, NoBody, 0, 0)
         target == {r \in datasets : r.id = id}
     IN  \/ /\ target = {}
            /\ Return(c, ErrorResponse(404, "Dataset not found"), 1)
            /\ UNCHANGED datasets
         \/ /\ target # {}
            /\ datasets' = (datasets \ target) \cup
                 {[r EXCEPT !.status = <<"d", "e", "l", "e", "t", "e", "d">>] :
                    r \in target}
            /\ Return(c, [status |-> 204, body |-> JNull], 1)
  /\ UNCHANGED <<api_keys, env, pendingTouch, searchVars, clock, calls,
                 assigned, uuids, keyVars,
                 uiVars>>

\* DELETE lines 88-102: one statement, and nothing is read before it
DELETE(headers, id) ==
  /\ LET c == Call("DELETE", id, headers, NoBody, 0, 0)
         target == {r \in datasets : r.id = id}
     IN  \/ /\ target = {}
            /\ Return(c, ErrorResponse(404, "Dataset not found"), 1)
            /\ UNCHANGED datasets
         \/ /\ target # {}
            /\ datasets' = datasets \ target
            /\ Return(c, [status |-> 204, body |-> JNull], 1)
         \/ /\ \E f \in StoreFailures :
                 \E resp \in FailedResponse("Failed to delete dataset: ", f) :
                   Return(c, resp, 1)
            /\ UNCHANGED datasets
  /\ UNCHANGED <<api_keys, env, pendingTouch, searchVars, clock, calls,
                 assigned, uuids, keyVars,
                 uiVars>>

\* GET /api/datasets/{id}, lines 6-20: one statement
GETById(headers, id) ==
  /\ LET c == Call("GET", id, headers, NoBody, 0, 0)
         rows == {r \in datasets : r.id = id}
     IN  \/ /\ rows = {}
            /\ Return(c, ErrorResponse(404, "Dataset not found"), 1)
         \/ \E r \in rows : Return(c, [status |-> 200, body |-> r], 1)
         \/ \E f \in StoreFailures :
              \E resp \in FailedResponse("Failed to fetch dataset: ", f) :
                Return(c, resp, 1)
  /\ UNCHANGED <<datasets, api_keys, env, pendingTouch, searchVars, clock,
                 calls, assigned, uuids, keyVars,
                 uiVars>>

-----------------------------------------------------------------------------
(* The catalog handlers: /api/datasets GET and /api/datasets/stats GET *)

\* the parameters of a list request
NoListParams ==
  [source_type |-> Null, status |-> Null, owner |-> Null, limit |-> Null,
   offset |-> Null]

\* /api/datasets GET, lines 81-96: conditions, params and paramIndex
ListQuery(sp) ==
  LET b0 == [conditions |-> <<>>, params |-> <<>>, paramIndex |-> 1]
      b1 == PushFilter(b0, Truthy(sp.source_type), "eq", "source_type",
                       sp.source_type)
      b2 == PushFilter(b1, Truthy(sp.status), "eq", "status", sp.status)
  IN  PushFilter(b2, Truthy(sp.owner), "eq", "owner", sp.owner)

\* lines 103-106: SELECT * ... ORDER BY created_at DESC LIMIT $n OFFSET $m
ListPageSql(b, limit, offset) ==
  [sql |-> "page", where |-> b.conditions, score |-> "none",
   limitPh |-> b.paramIndex, offsetPh |-> b.paramIndex + 1,
   params |-> b.params \o <<limit, offset>>]

\* ORDER BY created_at DESC: rows of equal created_at come in any order
OrderedByCreatedAt(rows) ==
  LET n == Cardinality(rows)
  IN  {s \in [1..n -> rows] :
         /\ \A i, j \in 1..n : i # j => s[i] # s[j]
         /\ \A i \in 1..(n - 1) : s[i].created_at >= s[i + 1].created_at}

\* LIMIT and OFFSET applied to an ordered result
ListPageOf(qy, s) ==
  LET lim == qy.params[qy.limitPh].val
      off == qy.params[qy.offsetPh].val
      end == IF off + lim <= Len(s) THEN off + lim ELSE Len(s)
  IN  [i \in 1..(IF end > off THEN end - off ELSE 0) |-> s[off + i]]

\* lines 73-101: the parameters are read and the count query answers or throws
GETListCount(headers, sp) ==
  /\ BagCardinality(calls) < MaxCalls
  /\ LET c == Call("LIST", Null, headers, sp, 0, 1)
         n == Cardinality(Selected(CountSql(ListQuery(sp))))
     IN  \/ /\ calls' = calls (+) SetToBag({[c EXCEPT !.acc =
                                               parseInt(NatToString(n))]})
            /\ UNCHANGED returned
         \/ /\ \E f \in StoreFailures :
                 \E resp \in FailedResponse("Failed to fetch datasets: ", f) :
                   Return(c, resp, 1)
            /\ UNCHANGED calls
  /\ UNCHANGED <<datasets, api_keys, env, pendingTouch, searchVars, clock,
                 assigned, uuids, keyVars,
                 uiVars>>

\* lines 103-118: the page query answers or throws
GETListPage(c) ==
  /\ BagIn(c, calls) /\ c.op = "LIST"
  /\ calls' = calls (-) SetToBag({c})
  /\ LET limit == ParseLimit(c.body.limit)
         offset == ParseOffset(c.body.offset)
         qy == ListPageSql(ListQuery(c.body), limit, offset)
         e == PageArgumentError(qy)
     IN  \/ /\ e = NoError
            /\ \E s \in OrderedByCreatedAt(Selected(qy)) :
                 Return(c, [status |-> 200,
                            body |-> [items |-> ListPageOf(qy, s),
                                      total |-> c.acc, limit |-> limit,
                                      offset |-> offset]], 2)
         \/ \E f \in (IF e = NoError THEN StoreFailures ELSE {e}) :
              \E resp \in FailedResponse("Failed to fetch datasets: ", f) :
                Return(c, resp, 2)
  /\ UNCHANGED <<datasets, api_keys, env, pendingTouch, searchVars, clock,
                 assigned, uuids, keyVars,
                 uiVars>>

RECURSIVE SumOf(_, _)
\* SUM(column) over the rows
SumOf(rows, column) ==
  IF rows = {} THEN 0
  ELSE LET r == CHOOSE x \in rows : TRUE
       IN  r[column] + SumOf(rows \ {r}, column)

\* SELECT column, COUNT(*) ... GROUP BY column, each count read by parseInt
CountBy(column) ==
  [v \in {r[column] : r \in datasets} |->
     parseInt(NatToString(Cardinality({r \in datasets : r[column] = v})))]

\* stats GET lines 7-8: await requireApiKey(request)
GETStatsAuth(headers, lookupFails) ==
  /\ BagCardinality(calls) < MaxCalls
  /\ LET auth == requireApiKey(headers, lookupFails)
         c == Call("STATS", Null, headers, NoBody, 0, 0)
     IN  /\ pendingTouch' = pendingTouch \cup {k.id : k \in auth.validKey}
         /\ IF auth.authError # Pending
              THEN Return(c, auth.authError, 0) /\ UNCHANGED calls
              ELSE /\ calls' = calls (+) SetToBag({c})
                   /\ UNCHANGED returned
  /\ UNCHANGED <<datasets, api_keys, env, searchVars, clock, assigned, uuids,
                 keyVars,
                 uiVars>>

\* the catch block of the stats handler, after n statements
StatsFails(c, n) ==
  /\ calls' = calls (-) SetToBag({c})
  /\ \E f \in StoreFailures :
       \E resp \in FailedResponse("Failed to fetch stats: ", f) :
         Return(c, resp, n)

\* lines 12-18: the aggregate query answers or throws
GETStatsTotals(c) ==
  /\ BagIn(c, calls) /\ c.op = "STATS" /\ c.queries = 0
  /\ \/ /\ calls' =
             (calls (-) SetToBag({c})) (+)
               SetToBag({[c EXCEPT
                            !.queries = 1,
                            !.acc = [total_datasets |->
                                       NatToString(Cardinality(datasets)),
                                     total_items |->
                                       NatToString(SumOf(datasets, "item_count")),
                                     total_bytes |->
                                       NatToString(SumOf(datasets,
                                                         "total_size_bytes"))]]})
        /\ UNCHANGED returned
     \/ StatsFails(c, 1)
  /\ UNCHANGED <<datasets, api_keys, env, pendingTouch, searchVars, clock,
                 assigned, uuids, keyVars,
                 uiVars>>

\* lines 21-29: the query by source type answers or throws
GETStatsBySource(c) ==
  /\ BagIn(c, calls) /\ c.op = "STATS" /\ c.queries = 1
  /\ \/ /\ calls' =
             (calls (-) SetToBag({c})) (+)
               SetToBag({[c EXCEPT
                            !.queries = 2,
                            !.acc = [total_datasets |-> c.acc.total_datasets,
                                     total_items |-> c.acc.total_items,
                                     total_bytes |-> c.acc.total_bytes,
                                     by_source_type |-> CountBy("source_type")]]})
        /\ UNCHANGED returned
     \/ StatsFails(c, 2)
  /\ UNCHANGED <<datasets, api_keys, env, pendingTouch, searchVars, clock,
                 assigned, uuids, keyVars,
                 uiVars>>

\* lines 32-53: the query by status answers or throws, and the response
GETStatsByStatus(c) ==
  /\ BagIn(c, calls) /\ c.op = "STATS" /\ c.queries = 2
  /\ \/ /\ calls' = calls (-) SetToBag({c})
        /\ Return(c, [status |-> 200,
                      body |-> [total_datasets |-> parseInt(c.acc.total_datasets),
                                total_items |-> parseInt(c.acc.total_items),
                                total_bytes |-> parseInt(c.acc.total_bytes),
                                by_source_type |-> c.acc.by_source_type,
                                by_status |-> CountBy("status")]], 3)
     \/ StatsFails(c, 3)
  /\ UNCHANGED <<datasets, api_keys, env, pendingTouch, searchVars, clock,
                 assigned, uuids, keyVars,
                 uiVars>>

-----------------------------------------------------------------------------
(* API-key management (scripts/apikey.mjs) and calls of the validation *)

\* the most API keys generated
MaxKeys == 2

\* the n-th key generateApiKey() returns: 32 random bytes, a key never
\* returned before
generateApiKey(n) == <<"d", "h", "_", DigitChar(n)>>

\* the n-th id generateId() returns: 16 random bytes
generateId(n) == CASE n = 1 -> "id1" [] n = 2 -> "id2" [] n = 3 -> "id3"
                   [] OTHER -> "id4"

\* no call of the validation is in progress
NoAuthCall ==
  [fn |-> "none", key |-> Null, rows |-> {}, result |-> Pending, trace |-> <<>>,
   lookups |-> 0, failed |-> FALSE]

\* issueApiKey lines 41-54: the key is generated and its row inserted, or the
\* INSERT fails and the key is discarded
issueApiKey(name) ==
  /\ keyGen < MaxKeys
  /\ keyGen' = keyGen + 1
  /\ \/ api_keys' = api_keys \cup
                      {[id |-> generateId(keyGen + 1),
                        key_hash |-> hashApiKey(generateApiKey(keyGen + 1)),
                        name |-> name, status |-> "active", last_used_at |-> 0]}
     \/ UNCHANGED api_keys
  /\ UNCHANGED <<datasets, env, pendingTouch, searchVars, catalogVars, revoked,
                 authCall,
                 uiVars>>

\* revokeApiKey lines 105-111: UPDATE ... WHERE (id = $1 OR name = $1) AND
\* status = 'active'
revokeApiKey(idOrName) ==
  /\ LET hit == {k \in api_keys :
                   (k.id = idOrName \/ k.name = idOrName) /\ k.status = "active"}
     IN  /\ api_keys' = (api_keys \ hit)
                          \cup {[k EXCEPT !.status = "revoked"] : k \in hit}
         /\ revoked' = revoked \cup {k.key_hash : k \in hit}
  /\ UNCHANGED <<datasets, env, pendingTouch, searchVars, catalogVars, keyGen,
                 authCall,
                 uiVars>>

\* deleteApiKey lines 136-141: DELETE ... WHERE id = $1 OR name = $1
deleteApiKey(idOrName) ==
  /\ api_keys' = {k \in api_keys : ~(k.id = idOrName \/ k.name = idOrName)}
  /\ UNCHANGED <<datasets, env, pendingTouch, searchVars, catalogVars, keyVars,
                 uiVars>>

\* a caller awaits validateApiKey(key)
ValidateApiKey(key, lookupFails) ==
  /\ authCall = NoAuthCall
  /\ LET rows == validateApiKey(key, lookupFails)
     IN  /\ authCall' = [fn |-> "validateApiKey", key |-> key, rows |-> rows,
                         result |-> Pending, trace |-> <<>>,
                         lookups |-> validateApiKeyLookups(key),
                         failed |-> lookupFails]
         /\ pendingTouch' = pendingTouch \cup {k.id : k \in rows}
  /\ UNCHANGED <<datasets, api_keys, env, searchVars, catalogVars, keyGen,
                 revoked,
                 uiVars>>

\* the functions of lib/auth that requireApiKey calls for the request
AuthTrace(headers) ==
  IF AuthBypassed THEN <<>>
  ELSE IF ~Truthy(extractApiKey(headers)) THEN <<"extractApiKey">>
  ELSE <<"extractApiKey", "validateApiKey">>

\* a handler awaits requireApiKey(request)
RequireApiKey(headers, lookupFails) ==
  /\ authCall = NoAuthCall
  /\ LET auth == requireApiKey(headers, lookupFails)
     IN  /\ authCall' = [fn |-> "requireApiKey",
                         key |-> headers["x-datahub-api-key"],
                         rows |-> auth.validKey, result |-> auth.authError,
                         trace |-> AuthTrace(headers),
                         lookups |->
                           IF "validateApiKey" \in Range(AuthTrace(headers))
                             THEN validateApiKeyLookups(extractApiKey(headers))
                             ELSE 0,
                         failed |-> lookupFails]
         /\ pendingTouch' = pendingTouch \cup {k.id : k \in auth.validKey}
  /\ UNCHANGED <<datasets, api_keys, env, searchVars, catalogVars, keyGen,
                 revoked,
                 uiVars>>

\* the caller has the result
AuthReturn ==
  /\ authCall # NoAuthCall
  /\ authCall' = NoAuthCall
  /\ UNCHANGED <<datasets, api_keys, env, pendingTouch, searchVars, catalogVars,
                 keyGen, revoked,
                 uiVars>>

-----------------------------------------------------------------------------
(* The dashboard page: SearchBox and DashboardContent *)

\* the most URLs given to router.push
MaxPushes == 2
\* the number of steps in which the debounce interval elapses
Steps == 3

\* the delay of the timer, in milliseconds
DebounceMs == 300

RECURSIVE TrimEnd(_)
TrimEnd(s) ==
  IF s # <<>> /\ s[Len(s)] = " " THEN TrimEnd(SubSeq(s, 1, Len(s) - 1)) ELSE s

\* value.trim()
Trim(s) == TrimEnd(TrimStart(s))

\* handleSearch: the q of the URL it pushes, none (<<>>) for a blank value
handleSearch(value) == Trim(value)

\* what the API answers a load for q: the search result, or the list when q
\* is empty
ItemsFor(q) ==
  LET rows == IF q = <<>> THEN Catalogue
              ELSE {r \in Catalogue :
                      TsMatch(r.search_vector, plainto_tsquery(q))}
  IN  [items |-> {r.id : r \in rows}, total |-> Cardinality(rows)]

\* the page after its first render: the input holds the q of the URL, the
\* effects have set the timer and started the first load
Mounted ==
  /\ boxQuery = <<>>
  /\ url = <<>>
  /\ timeout = <<DebounceMs>>
  /\ pushed = <<>>
  /\ navigated = 0
  /\ quiet = 0
  /\ burst = 0
  /\ loads = {[q |-> <<>>, n |-> 0]}
  /\ shown = [datasets |-> {}, total |-> 0, error |-> Null, loading |-> TRUE]

\* onChange: setQuery(value); the effect clears its timer and sets a new one
Change(value) ==
  /\ value # boxQuery
  /\ boxQuery' = value
  /\ timeout' = <<DebounceMs>>
  /\ quiet' = 0
  /\ burst' = 0
  /\ UNCHANGED <<datasets, api_keys, env, pendingTouch, searchVars,
                 catalogVars, keyVars, url, pushed, navigated, loads, shown>>

\* time passes, up to the moment the timer is due
Elapse ==
  /\ timeout # <<0>>
  /\ timeout # <<>> \/ quiet < DebounceMs
  /\ LET step == DebounceMs \div Steps
     IN  /\ timeout' = IF timeout = <<>> THEN <<>>
                       ELSE IF timeout[1] > step THEN <<timeout[1] - step>>
                       ELSE <<0>>
         /\ quiet' = IF quiet + step < DebounceMs THEN quiet + step
                     ELSE DebounceMs
  /\ UNCHANGED <<datasets, api_keys, env, pendingTouch, searchVars,
                 catalogVars, keyVars, boxQuery, url, pushed, navigated, burst,
                 loads, shown>>

\* SearchBox lines 201-205: the timer fires
TimeoutFires ==
  /\ timeout = <<0>>
  /\ timeout' = <<>>
  /\ IF boxQuery # url
       THEN /\ Len(pushed) < MaxPushes
            /\ pushed' = Append(pushed, handleSearch(boxQuery))
            /\ burst' = burst + 1
       ELSE UNCHANGED <<pushed, burst>>
  /\ UNCHANGED <<datasets, api_keys, env, pendingTouch, searchVars,
                 catalogVars, keyVars, boxQuery, url, navigated, quiet, loads,
                 shown>>

\* the router makes a pushed URL the page URL; when q changes, the effect of
\* SearchBox runs again and that of DashboardContent starts loadData
Navigate ==
  /\ navigated < Len(pushed)
  /\ navigated' = navigated + 1
  /\ url' = pushed[navigated + 1]
  /\ IF url' # url
       THEN /\ timeout' = <<DebounceMs>>
            /\ loads' = loads \cup {[q |-> url', n |-> navigated + 1]}
            /\ shown' = [shown EXCEPT !.loading = TRUE, !.error = Null]
       ELSE UNCHANGED <<timeout, loads, shown>>
  /\ UNCHANGED <<datasets, api_keys, env, pendingTouch, searchVars,
                 catalogVars, keyVars, boxQuery, pushed, quiet, burst>>

\* loadData lines 35-43: both fetches have answered
LoadSettles(l) ==
  /\ l \in loads
  /\ loads' = loads \ {l}
  /\ shown' = [datasets |-> ItemsFor(l.q).items, total |-> ItemsFor(l.q).total,
               error |-> shown.error, loading |-> FALSE]
  /\ UNCHANGED <<datasets, api_keys, env, pendingTouch, searchVars,
                 catalogVars, keyVars, boxQuery, url, timeout, pushed,
                 navigated, quiet, burst>>

\* loadData lines 44-48: a fetch has failed
LoadFails(l) ==
  /\ l \in loads
  /\ loads' = loads \ {l}
  /\ shown' = [shown EXCEPT
                 !.error = IF l.q = <<>> THEN <<"Failed to fetch datasets">>
                           ELSE <<"Search failed">>,
                 !.loading = FALSE]
  /\ UNCHANGED <<datasets, api_keys, env, pendingTouch, searchVars,
                 catalogVars, keyVars, boxQuery, url, timeout, pushed,
                 navigated, quiet, burst>>

-----------------------------------------------------------------------------
(* The specification of the search endpoint *)

Stores == {S \in SUBSET Catalogue : Cardinality(S) <= MaxRows}

InitialKeys ==
  { [id |-> 1, key_hash |-> hashApiKey(key_1), status |-> "active",
     last_used_at |-> 0],
    [id |-> 2, key_hash |-> hashApiKey(key_2), status |-> "revoked",
     last_used_at |-> 0] }

Init ==
  /\ datasets \in Stores
  /\ api_keys = InitialKeys
  /\ env \in Envs
  /\ pendingTouch = {}
  /\ pc = "idle"
  /\ searchParams = NoParams
  /\ local = NoLocal
  /\ conditions = <<>>
  /\ params = <<>>
  /\ paramIndex = 1
  /\ total = NaN
  /\ issued = <<>>
  /\ thrown = NoError
  /\ response = Pending
  /\ error = NoError
  /\ errMsg = <<>>
  /\ clock = 0
  /\ calls = EmptyBag
  /\ returned = NoneReturned
  /\ assigned = {}
  /\ uuids = 0
  /\ keyGen = 0
  /\ revoked = {}
  /\ authCall = NoAuthCall
  /\ Mounted

Next ==
  \/ \E headers \in Headers, lookupFails \in BOOLEAN : GETAuth(headers, lookupFails)
  \/ \E sp \in SearchParamValues : GETParse(sp)
  \/ GETCount
  \/ \E e \in StoreFailures : GETCountFails(e)
  \/ GETPage
  \/ \E e \in StoreFailures : GETPageFails(e)
  \/ GETReturn
  \/ \E id \in pendingTouch : UpdateLastUsed(id)
  \/ \E id \in pendingTouch : UpdateLastUsedFails(id)

Spec == Init /\ [][Next]_vars

-----------------------------------------------------------------------------
(* The specification of the error classifier alone *)

ErrorValues ==
  { [kind |-> kind, code |-> code, column |-> column, table |-> table,
     constraint |-> constraint, message |-> message] :
      kind \in {"object", "Error"},
      code \in {Absent, "23502", "23505", "23503", "23514", "57014"},
      column \in {Absent, "", "storage_backend"},
      table \in {Absent, "datasets"},
      constraint \in {Absent, "datasets_pkey"},
      message \in {Absent, NonString,
                   "duplicate key value violates unique constraint"} }
  \cup { [NoError EXCEPT !.kind = kind] : kind \in {"string", "null", "undefined"} }

InitErr ==
  /\ error \in {e \in ErrorValues : e.kind = "Error" => e.message # Absent}
  /\ errMsg = <<>>
  /\ datasets = {}
  /\ api_keys = InitialKeys
  /\ env \in Envs
  /\ pendingTouch = {}
  /\ pc = "idle"
  /\ searchParams = NoParams
  /\ local = NoLocal
  /\ conditions = <<>>
  /\ params = <<>>
  /\ paramIndex = 1
  /\ total = NaN
  /\ issued = <<>>
  /\ thrown = NoError
  /\ response = Pending
  /\ clock = 0
  /\ calls = EmptyBag
  /\ returned = NoneReturned
  /\ assigned = {}
  /\ uuids = 0
  /\ keyGen = 0
  /\ revoked = {}
  /\ authCall = NoAuthCall
  /\ Mounted

\* a caller's catch block asks for the client's message of the error
Classify(version) ==
  /\ errMsg = <<>>
  /\ errMsg' = LibErrors(version, error)
  /\ UNCHANGED <<datasets, api_keys, env, pendingTouch, pc, searchParams, local,
                 conditions, params, paramIndex, total, issued, thrown,
                 response, error, catalogVars, keyVars,
                 uiVars>>

NextErr == \E version \in Versions : Classify(version)

SpecErr == InitErr /\ [][NextErr]_vars

-----------------------------------------------------------------------------
(* The specification of the catalog writes: concurrent POST, PATCH, DELETE *)

id_a == <<"a">>

\* a client without an API key
NoKey == [h \in {"x-datahub-api-key"} |-> Null]

\* a complete body with the id chosen by the client
BodyWithId ==
  [id |-> JStr(id_a), name |-> JStr(w_data), source_type |-> JStr(w_wiki),
   storage_backend |-> JStr(w_s3), storage_path |-> JStr(w_path)]

\* a complete body without id
BodyWithoutId ==
  [name |-> JStr(w_docs), source_type |-> JStr(w_jira),
   storage_backend |-> JStr(w_s3), storage_path |-> JStr(w_path),
   owner |-> JStr(w_ann), tags |-> JArr(<<w_fin, w_eng>>)]

RequiredFields == {"name", "source_type", "storage_backend", "storage_path"}

\* the body without one of its fields
Without(body, field) == [f \in DOMAIN body \ {field} |-> body[f]]

PostBodies ==
  {BodyWithId, BodyWithoutId, InvalidJson}
    \cup {Without(BodyWithId, f) : f \in RequiredFields}

\* PATCH bodies: an allow-listed field with keys that are not allow-listed,
\* only such keys, a required field set to null, no JSON, and the value null
PatchBodies ==
  { [name |-> JStr(w_docs), owner |-> JStr(w_bob), id |-> JStr(<<"z">>),
     source_type |-> JStr(w_jira), created_at |-> JStr(<<"9">>),
     updated_at |-> JStr(<<"9">>)],
    [source_type |-> JStr(w_jira)],
    [storage_path |-> JNull],
    InvalidJson, JNull }

\* the id the client addresses
CatalogIds == {id_a}

Production == [DISABLE_API_KEY_AUTH |-> "true", NODE_ENV |-> "production"]

InitCrud ==
  /\ datasets = {}
  /\ api_keys = InitialKeys
  /\ env = Production
  /\ pendingTouch = {}
  /\ pc = "idle"
  /\ searchParams = NoParams
  /\ local = NoLocal
  /\ conditions = <<>>
  /\ params = <<>>
  /\ paramIndex = 1
  /\ total = NaN
  /\ issued = <<>>
  /\ thrown = NoError
  /\ response = Pending
  /\ error = NoError
  /\ errMsg = <<>>
  /\ clock = 0
  /\ calls = EmptyBag
  /\ returned = NoneReturned
  /\ assigned = {}
  /\ uuids = 0
  /\ keyGen = 0
  /\ revoked = {}
  /\ authCall = NoAuthCall
  /\ Mounted

NextCrud ==
  \/ Tick
  \/ \E body \in PostBodies : POSTBegin(NoKey, body)
  \/ \E c \in BagToSet(calls) : POSTInsert(c)
  \/ \E id \in CatalogIds, body \in PatchBodies : PATCHBegin(NoKey, id, body)
  \/ \E c \in BagToSet(calls) : PATCHUpdate(c)
  \/ \E id \in CatalogIds : DELETE(NoKey, id)

SpecCrud == InitCrud /\ [][NextCrud]_vars

-----------------------------------------------------------------------------
(* The specification of the catalog endpoints as a client calls them *)

\* no key, the active key, the revoked key
ApiHeaders == {[h \in {"x-datahub-api-key"} |-> v] : v \in {Null, key_1, key_2}}

ListParamValues ==
  {[NoListParams EXCEPT !.status = w_active, !.limit = <<"1">>]}

InitApi ==
  /\ InitCrud

NextApi ==
  \/ \E h \in ApiHeaders : POSTBegin(h, BodyWithId)
  \/ \E c \in BagToSet(calls) : POSTInsert(c)
  \/ \E h \in ApiHeaders : PATCHBegin(h, id_a, [name |-> JStr(w_docs)])
  \/ \E c \in BagToSet(calls) : PATCHUpdate(c)
  \/ \E h \in ApiHeaders : DELETE(h, id_a)
  \/ \E h \in ApiHeaders : GETById(h, id_a)
  \/ \E h \in ApiHeaders, sp \in ListParamValues : GETListCount(h, sp)
  \/ \E c \in BagToSet(calls) : GETListPage(c)
  \/ \E h \in ApiHeaders, lookupFails \in BOOLEAN : GETStatsAuth(h, lookupFails)
  \/ \E c \in BagToSet(calls) : GETStatsTotals(c)
  \/ \E c \in BagToSet(calls) : GETStatsBySource(c)
  \/ \E c \in BagToSet(calls) : GETStatsByStatus(c)
  \/ \E id \in pendingTouch : UpdateLastUsed(id)
  \/ \E id \in pendingTouch : UpdateLastUsedFails(id)

SpecApi == InitApi /\ [][NextApi]_vars

-----------------------------------------------------------------------------
(* The specification of requireApiKey under every environment *)

AllEnvs ==
  { [DISABLE_API_KEY_AUTH |-> flag, NODE_ENV |-> node] :
      flag \in {Absent, "true", "TRUE", "1", "false"},
      node \in {Absent, "production", "development", "test"} }

InitAuth ==
  /\ env \in AllEnvs
  /\ datasets = {}
  /\ api_keys = InitialKeys
  /\ pendingTouch = {}
  /\ pc = "idle"
  /\ searchParams = NoParams
  /\ local = NoLocal
  /\ conditions = <<>>
  /\ params = <<>>
  /\ paramIndex = 1
  /\ total = NaN
  /\ issued = <<>>
  /\ thrown = NoError
  /\ response = Pending
  /\ error = NoError
  /\ errMsg = <<>>
  /\ clock = 0
  /\ calls = EmptyBag
  /\ returned = NoneReturned
  /\ assigned = {}
  /\ uuids = 0
  /\ keyGen = 0
  /\ revoked = {}
  /\ authCall = NoAuthCall
  /\ Mounted

NextAuth ==
  \/ \E headers \in Headers, lookupFails \in BOOLEAN :
       RequireApiKey(headers, lookupFails)
  \/ \E key \in HeaderValues, lookupFails \in BOOLEAN :
       ValidateApiKey(key, lookupFails)
  \/ AuthReturn
  \/ \E id \in pendingTouch : UpdateLastUsed(id)
  \/ \E id \in pendingTouch : UpdateLastUsedFails(id)

SpecAuth == InitAuth /\ [][NextAuth]_vars

-----------------------------------------------------------------------------
(* The specification of the API keys: issue, revoke, delete, validate *)

KeyNames == {"ci", "ops"}

\* the argument of revoke and delete: an id or a name
KeyArgs == {generateId(n) : n \in 1..MaxKeys} \cup KeyNames

\* the keys a caller presents
PresentedKeys == {Null, <<>>} \cup {generateApiKey(n) : n \in 1..MaxKeys}

InitKeys ==
  /\ api_keys = {}
  /\ env = Production
  /\ datasets = {}
  /\ pendingTouch = {}
  /\ pc = "idle"
  /\ searchParams = NoParams
  /\ local = NoLocal
  /\ conditions = <<>>
  /\ params = <<>>
  /\ paramIndex = 1
  /\ total = NaN
  /\ issued = <<>>
  /\ thrown = NoError
  /\ response = Pending
  /\ error = NoError
  /\ errMsg = <<>>
  /\ clock = 0
  /\ calls = EmptyBag
  /\ returned = NoneReturned
  /\ assigned = {}
  /\ uuids = 0
  /\ keyGen = 0
  /\ revoked = {}
  /\ authCall = NoAuthCall
  /\ Mounted

NextKeys ==
  \/ \E name \in KeyNames : issueApiKey(name)
  \/ \E arg \in KeyArgs : revokeApiKey(arg)
  \/ \E arg \in KeyArgs : deleteApiKey(arg)
  \/ \E key \in PresentedKeys, lookupFails \in BOOLEAN :
       ValidateApiKey(key, lookupFails)
  \/ AuthReturn
  \/ \E id \in pendingTouch : UpdateLastUsed(id)
  \/ \E id \in pendingTouch : UpdateLastUsedFails(id)

SpecKeys == InitKeys /\ [][NextKeys]_vars

-----------------------------------------------------------------------------
(* The specification of searches and reads while the catalog is written *)

w_draft == <<"d", "r", "a", "f", "t">>

\* a complete body with a status of the client's own
BodyWithStatus ==
  [id |-> JStr(id_a), name |-> JStr(w_data), source_type |-> JStr(w_wiki),
   storage_backend |-> JStr(w_s3), storage_path |-> JStr(w_path),
   status |-> JStr(w_draft)]

\* a rename, and a body that names no field a PATCH may set
LivePatchBodies == {[name |-> JStr(w_docs)], [source_type |-> JStr(w_jira)]}

\* searches for the old and for the new name
LiveSearches == {[NoParams EXCEPT !.q = w_data], [NoParams EXCEPT !.q = w_docs]}

\* the test environment, in which requireApiKey lets every request pass
TestEnv == [DISABLE_API_KEY_AUTH |-> "true", NODE_ENV |-> "development"]

InitLive ==
  /\ datasets = {}
  /\ api_keys = InitialKeys
  /\ env = TestEnv
  /\ pendingTouch = {}
  /\ pc = "idle"
  /\ searchParams = NoParams
  /\ local = NoLocal
  /\ conditions = <<>>
  /\ params = <<>>
  /\ paramIndex = 1
  /\ total = NaN
  /\ issued = <<>>
  /\ thrown = NoError
  /\ response = Pending
  /\ error = NoError
  /\ errMsg = <<>>
  /\ clock = 0
  /\ calls = EmptyBag
  /\ returned = NoneReturned
  /\ assigned = {}
  /\ uuids = 0
  /\ keyGen = 0
  /\ revoked = {}
  /\ authCall = NoAuthCall
  /\ Mounted

NextLive ==
  \/ GETAuth(NoKey, FALSE)
  \/ \E sp \in LiveSearches : GETParse(sp)
  \/ GETCount
  \/ GETPage
  \/ GETReturn
  \/ \E body \in {BodyWithId, BodyWithStatus} : POSTBegin(NoKey, body)
  \/ \E c \in BagToSet(calls) : POSTInsert(c)
  \/ \E body \in LivePatchBodies : PATCHBegin(NoKey, id_a, body)
  \/ \E c \in BagToSet(calls) : PATCHUpdate(c)
  \/ DELETE(NoKey, id_a)
  \/ GETById(NoKey, id_a)
  \/ GETListCount(NoKey, NoListParams)
  \/ \E c \in BagToSet(calls) : GETListPage(c)

SpecLive == InitLive /\ [][NextLive]_vars

-----------------------------------------------------------------------------
(* The specification of the dashboard page in a browser *)

\* what the user types: nothing, a word, the word after a blank, another word
BoxValues == {<<>>, w_data, <<" ">> \o w_data, w_docs}

InitUi ==
  /\ InitCrud

NextUi ==
  \/ \E value \in BoxValues : Change(value)
  \/ Elapse
  \/ TimeoutFires
  \/ Navigate
  \/ \E l \in loads : LoadSettles(l)
  \/ \E l \in loads : LoadFails(l)

SpecUi == InitUi /\ [][NextUi]_vars

-----------------------------------------------------------------------------
(* What a search request asks for, stated on the request and the rows *)

\* a parameter that is present with a non-empty value
Supplied(v) == v # Null /\ v # <<>>

IsFuzzy(sp) == sp.fuzzy = w_true

\* the row's search representation lexically matches q
Lexical(q, row) == TsMatch(row.search_vector, plainto_tsquery(q))

\* the row's name is within the similarity threshold of q
Similar(q, row) == TrgmMatch(row.name, q)

ExactFiltersHold(sp, row) ==
  /\ Supplied(sp.source_type) => row.source_type = sp.source_type
  /\ Supplied(sp.status) => row.status = sp.status
  /\ Supplied(sp.owner) => row.owner = sp.owner

TagsFilterHolds(sp, row) ==
  Supplied(sp.tags) => Range(row.tags) \cap Range(Split(sp.tags, ",")) # {}

\* the rows that satisfy the predicate set of a request
Satisfying(sp) ==
  {r \in datasets :
     /\ Lexical(sp.q, r) \/ (IsFuzzy(sp) /\ Similar(sp.q, r))
     /\ ExactFiltersHold(sp, r)
     /\ TagsFilterHolds(sp, r)}

RECURSIVE AllDigits(_)
AllDigits(s) == s = <<>> \/ (Head(s) \in Digits /\ AllDigits(Tail(s)))

\* an optional sign followed by one or more digits
IntegerLiteral(s) ==
  LET body == IF s # <<>> /\ Head(s) \in {"-", "+"} THEN Tail(s) ELSE s
  IN  s # Null /\ body # <<>> /\ AllDigits(body)

Succeeded == pc = "done" /\ response.status = 200

LimitBound(qy) == qy.params[qy.limitPh]
OffsetBound(qy) == qy.params[qy.offsetPh]

PageQueries == {i \in DOMAIN issued : issued[i].sql = "page"}

-----------------------------------------------------------------------------
(* The claims *)

\* C1: an authenticated search request whose q is absent or empty is answered
\* 400 with exactly {error: 'Query parameter "q" is required'}, whatever the
\* other parameters are, and no query is sent to the datasets table.
C1_MissingQIs400 ==
  (pc \in {"count", "page", "done"} /\ response.status # 401
     /\ searchParams.q \in {Null, <<>>})
    => /\ pc = "done"
       /\ response =
            [status |-> 400,
             body |-> [error |-> <<"Query parameter \"q\" is required">>]]
       /\ issued = <<>>

\* an empty q sent with a valid key, with every other parameter present
C1_Witness ==
  /\ pc = "done"
  /\ response.status = 400
  /\ ~AuthBypassed
  /\ searchParams.q = <<>>
  /\ searchParams.limit = <<"a", "b", "c">>
  /\ Supplied(searchParams.source_type) /\ Supplied(searchParams.tags)
  /\ searchParams.fuzzy = w_true

\* C2: for every integer limit and offset parameter (or none), the LIMIT
\* bound into the page query is in 1..100 and the OFFSET is >= 0, and a limit
\* above 100 is bound as 100.
C2_LimitOffsetInRange ==
  \A i \in PageQueries :
    /\ (searchParams.limit = Null \/ IntegerLiteral(searchParams.limit))
         => /\ ~LimitBound(issued[i]).nan
            /\ LimitBound(issued[i]).val \in 1..100
    /\ (searchParams.offset = Null \/ IntegerLiteral(searchParams.offset))
         => /\ ~OffsetBound(issued[i]).nan
            /\ OffsetBound(issued[i]).val >= 0
    /\ (IntegerLiteral(searchParams.limit)
          /\ parseInt(searchParams.limit).val > 100)
         => LimitBound(issued[i]) = Num(100)

\* C3: a limit or offset parameter that is present but not numeric is treated
\* as absent: the page query is bound with limit 20 (offset 0) and no error
\* is raised because of the parameter.
C3_NonNumericIsDefault ==
  \A i \in PageQueries :
    /\ (searchParams.limit # Null /\ ~IntegerLiteral(searchParams.limit))
         => LimitBound(issued[i]) = Num(20)
    /\ (searchParams.offset # Null /\ ~IntegerLiteral(searchParams.offset))
         => OffsetBound(issued[i]) = Num(0)
    /\ (\/ searchParams.limit # Null /\ ~IntegerLiteral(searchParams.limit)
        \/ searchParams.offset # Null /\ ~IntegerLiteral(searchParams.offset))
         => thrown.code # "22P02"

\* C4: in every successful response total is the number of rows that satisfy
\* the text-match clause and every supplied filter; it is a function of the
\* store, q, fuzzy and the filters alone, so it is the same for every limit
\* and offset.
C4_TotalIsCount ==
  Succeeded => response.body.total = Num(Cardinality(Satisfying(searchParams)))

\* a page of one item out of two matching rows, with a filter supplied
C4_Witness ==
  /\ Succeeded
  /\ response.body.total = Num(2)
  /\ Len(response.body.items) = 1
  /\ searchParams.limit = <<"1">> /\ searchParams.offset = <<"1">>
  /\ Supplied(searchParams.source_type)

\* C5: the rows a non-fuzzy search selects are exactly those that match q
\* lexically (and the filters); a fuzzy search selects those and the rows
\* whose name is similar to q, so it selects a superset.
C5_FuzzyIsSuperset ==
  \A i \in DOMAIN issued :
    LET lexical == {r \in datasets :
                      /\ Lexical(searchParams.q, r)
                      /\ ExactFiltersHold(searchParams, r)
                      /\ TagsFilterHolds(searchParams, r)}
        similar == {r \in datasets :
                      /\ Similar(searchParams.q, r)
                      /\ ExactFiltersHold(searchParams, r)
                      /\ TagsFilterHolds(searchParams, r)}
    IN  IF IsFuzzy(searchParams)
          THEN /\ lexical \subseteq Selected(issued[i])
               /\ Selected(issued[i]) = lexical \cup similar
          ELSE Selected(issued[i]) = lexical

\* a fuzzy search that returns a lexical match and a row no lexical search finds
C5_Witness ==
  /\ Succeeded
  /\ IsFuzzy(searchParams)
  /\ Len(response.body.items) = 2
  /\ \E r \in Selected(issued[1]) : ~Lexical(searchParams.q, r)
  /\ \E r \in Selected(issued[1]) : Lexical(searchParams.q, r)

\* C6: every returned row satisfies every supplied exact filter (source_type,
\* status, owner), in fuzzy mode too: a row matching by name similarity only
\* is left out when a filter does not match it.
C6_ItemsSatisfyFilters ==
  Succeeded =>
    \A i \in DOMAIN response.body.items :
      ExactFiltersHold(searchParams, response.body.items[i])

\* a fuzzy search whose status filter leaves out a row that matches by
\* similarity only, while it returns another
C6_Witness ==
  /\ Succeeded
  /\ IsFuzzy(searchParams)
  /\ Supplied(searchParams.status)
  /\ response.body.items # <<>>
  /\ \E r \in datasets :
       /\ Similar(searchParams.q, r) /\ ~Lexical(searchParams.q, r)
       /\ r.status # searchParams.status
       /\ \A i \in DOMAIN response.body.items : response.body.items[i].id # r.id

\* C7: when tags is supplied, a row is returned only if it has a tag in common
\* with the comma-separated list; a row sharing no tag is never returned.
C7_ItemsShareATag ==
  Succeeded =>
    \A i \in DOMAIN response.body.items :
      TagsFilterHolds(searchParams, response.body.items[i])

\* a returned row whose tags are neither equal to the list nor contain it,
\* and a row of the store without a common tag
C7_Witness ==
  /\ Succeeded
  /\ Supplied(searchParams.tags)
  /\ \E i \in DOMAIN response.body.items :
       LET given == Range(Split(searchParams.tags, ","))
           have == Range(response.body.items[i].tags)
       IN  have # given /\ ~(given \subseteq have) /\ have \cap given # {}
  /\ \E r \in datasets :
       /\ Lexical(searchParams.q, r)
       /\ Range(r.tags) \cap Range(Split(searchParams.tags, ",")) = {}

\* C8: the items of a successful response are in non-increasing order of
\* relevance_score; the score is the lexical rank in non-fuzzy mode and the
\* greater of name similarity and lexical rank in fuzzy mode, so never below
\* the lexical rank.
C8_ItemsRankedDescending ==
  Succeeded =>
    LET items == response.body.items
        rank(r) == ts_rank(r.search_vector, plainto_tsquery(searchParams.q))
        sim(r) == similarity(r.name, searchParams.q)
    IN  /\ \A i, j \in DOMAIN items :
             i < j => items[i].relevance_score >= items[j].relevance_score
        /\ \A i \in DOMAIN items :
             /\ items[i].relevance_score >= rank(items[i])
             /\ items[i].relevance_score =
                  IF ~IsFuzzy(searchParams) THEN rank(items[i])
                  ELSE IF sim(items[i]) >= rank(items[i]) THEN sim(items[i])
                  ELSE rank(items[i])

\* a fuzzy page of two items of different scores, one scored by its lexical
\* rank and one by its similarity
C8_Witness ==
  /\ Succeeded
  /\ IsFuzzy(searchParams)
  /\ Len(response.body.items) = 2
  /\ response.body.items[1].relevance_score > response.body.items[2].relevance_score
  /\ \E i \in 1..2 :
       response.body.items[i].relevance_score >
         similarity(response.body.items[i].name, searchParams.q)
  /\ \E i \in 1..2 :
       response.body.items[i].relevance_score >
         ts_rank(response.body.items[i].search_vector,
                 plainto_tsquery(searchParams.q))

\* C9: when the count query or the page query fails, the response is one HTTP
\* 500 whose body has the error string alone, 'Search failed: ' followed by
\* the classified message of the failure; no items and no total, also when
\* the count query had succeeded.
C9_FailureIsOne500 ==
  thrown # NoError =>
    /\ pc = "done"
    /\ response.status = 500
    /\ DOMAIN response.body = {"error"}
    /\ \E version \in Versions :
         response.body.error =
           <<"Search failed: ">> \o LibErrors(version, thrown)

\* the page query fails after the count query has answered with a total
C9_Witness ==
  /\ pc = "done"
  /\ thrown \in StoreFailures
  /\ Len(issued) = 2
  /\ total = Num(2)
  /\ response.status = 500

\* the message text of the underlying storage error, when it has one
HasRawMessage(e) == IsObject(e) /\ e.message \notin {Absent, NonString}

ConstraintCodes == {"23502", "23505", "23503", "23514"}

\* a name the error gives, or the placeholder that stands for it
NameOr(v, placeholder) == ({v} \ {Absent, ""}) \cup {placeholder}

\* the messages of a failure category: its templates, filled with the names
\* the error gives or with the placeholder
CategoryMessages(e) ==
  CASE e.code = "23502" ->
         {<<"Missing required field: ", c, " in ", t>> :
            c \in NameOr(e.column, "unknown column"),
            t \in NameOr(e.table, "unknown table")}
    [] e.code = "23505" ->
         {<<"Duplicate entry: a record with this value already exists">>}
           \cup {<<"Duplicate entry violates ", c>> :
                   c \in NameOr(e.constraint, "unique constraint")}
    [] e.code = "23503" ->
         {<<"Invalid reference: the referenced record does not exist">>}
           \cup {<<"Invalid reference violates ", c>> :
                   c \in NameOr(e.constraint, "foreign key constraint")}
    [] e.code = "23514" ->
         {<<"Invalid data: the value does not meet validation requirements">>}
           \cup {<<"Data violates ", c>> :
                   c \in NameOr(e.constraint, "check constraint")}
    [] OTHER -> {<<"An unknown error occurred">>}

\* C10 as claimed: the message returned for a storage failure is one of the
\* classified messages of the failure's category and never carries the raw
\* message text of the underlying error.
C10_NeverRawMessage ==
  errMsg # <<>> =>
    /\ errMsg \in CategoryMessages(error)
    /\ HasRawMessage(error) => error.message \notin Range(errMsg)

\* C10 as amended: for a failure with one of the four constraint codes the
\* message is a classified message of that category and carries no raw
\* message text; for any other failure it is the raw message text of the
\* error when there is one, and 'An unknown error occurred' for a value that
\* is no Error and has none.
C10_ConstraintFailuresClassified ==
  errMsg # <<>> =>
    IF IsObject(error) /\ error.code \in ConstraintCodes
      THEN /\ errMsg \in CategoryMessages(error)
           /\ HasRawMessage(error) => error.message \notin Range(errMsg)
    ELSE IF HasRawMessage(error)
      THEN errMsg = <<error.message>>
    ELSE error.kind # "Error" => errMsg = <<"An unknown error occurred">>

\* a unique violation with a message text, answered by the fixed message
C10_Witness ==
  /\ error.code = "23505"
  /\ HasRawMessage(error)
  /\ error.constraint = "datasets_pkey"
  /\ errMsg = <<"Duplicate entry: a record with this value already exists">>

\* C11 as claimed: when the count query has answered with a total of 0, the
\* request is answered 200 with no items and total 0, without error, and no
\* page query is sent to the store.
C11_ZeroTotalShortCircuits ==
  (pc = "done" /\ total = Num(0)) =>
    /\ response =
         [status |-> 200,
          body |-> [items |-> <<>>, total |-> Num(0), query |-> searchParams.q]]
    /\ thrown = NoError
    /\ PageQueries = {}

\* C12 as claimed: no step of a search request changes the store, neither the
\* datasets table nor the api_keys table.
C12_StoreUntouched ==
  [][datasets' = datasets /\ api_keys' = api_keys]_vars

\* C12 as amended: a search request never changes the datasets table; the
\* only write it causes is the last_used_at of an active API key whose
\* validation started that update, and it adds and removes no key.
C12_OnlyLastUsedAtWritten ==
  [][/\ datasets' = datasets
     /\ {k.id : k \in api_keys'} = {k.id : k \in api_keys}
     /\ \A k2 \in api_keys' :
          \E k \in api_keys :
            /\ k2 = [k EXCEPT !.last_used_at = k2.last_used_at]
            /\ k2 # k => (k.id \in pendingTouch /\ k.status = "active")]_vars

\* a search answered 200 whose key has had its last_used_at written, with no
\* operation of the request left in flight
C12_Witness ==
  /\ Succeeded
  /\ pendingTouch = {}
  /\ \E k \in api_keys : k.status = "active" /\ k.last_used_at # 0
  /\ \A k \in api_keys : k.status # "active" => k.last_used_at = 0

\* the total a request is answered with on the store as it is
TotalOf(sp) ==
  parseInt(NatToString(Cardinality(Selected(CountSql(BuildQuery(ReadParams(sp)))))))

\* the pages a request can be answered with on the store as it is
PagesOf(sp) ==
  LET qy == PageSql(BuildQuery(ReadParams(sp)), ReadParams(sp))
  IN  {PageOf(qy, s) : s \in Ordered(qy, Selected(qy))}

ItemIds(items) == {items[i].id : i \in DOMAIN items}

-----------------------------------------------------------------------------
(* The claims on the catalog endpoints and the API keys *)

\* the key is stored, hashed, with status 'active'
KeyIsActive(key) ==
  \E k \in api_keys : k.key_hash = hashApiKey(key) /\ k.status = "active"

\* the check is disabled for tests: the flag is 'true' outside production
BypassConfigured ==
  env.DISABLE_API_KEY_AUTH = "true" /\ env.NODE_ENV # "production"

\* the invocation c of a catalog handler returns in this step
Completes(c) == BagIn(c, calls) /\ calls' = calls (-) SetToBag({c})

\* C14 as claimed: a request to a dataset endpoint that carries no valid
\* active API key is answered 401 and sends no statement to the datasets
\* table, neither before it returns nor while it is suspended.
C14_EveryEndpointRequiresKey ==
  ~BypassConfigured =>
    /\ (returned # NoneReturned
          /\ ~KeyIsActive(returned.headers["x-datahub-api-key"]))
         => (returned.response.status = 401 /\ returned.queries = 0)
    /\ \A c \in BagToSet(calls) :
         ~KeyIsActive(c.headers["x-datahub-api-key"]) => c.queries = 0

\* C15: requireApiKey allows the request (returns null) only if validateApiKey
\* accepted the key it carries, which is then stored with status 'active', or
\* if DISABLE_API_KEY_AUTH is exactly 'true' and NODE_ENV is not 'production';
\* otherwise it returns a 401 response. When the bypass applies it calls
\* neither extractApiKey nor validateApiKey; in production a request is
\* allowed only after validateApiKey has accepted its key.
C15_AllowedOnlyByKeyOrBypass ==
  authCall.fn = "requireApiKey" =>
    LET allowed == authCall.result = Pending
        accepted == authCall.rows # {}
    IN  /\ allowed => (BypassConfigured \/ accepted)
        /\ accepted => KeyIsActive(authCall.key)
        /\ (~BypassConfigured /\ ~accepted) => authCall.result.status = 401
        /\ BypassConfigured =>
             (allowed /\ authCall.trace = <<>> /\ ~accepted)
        /\ (env.NODE_ENV = "production" /\ allowed) =>
             /\ "validateApiKey" \in Range(authCall.trace)
             /\ accepted

\* the flag is 'true' in production and a request without key is rejected
C15_Witness ==
  /\ authCall.fn = "requireApiKey"
  /\ env.DISABLE_API_KEY_AUTH = "true" /\ env.NODE_ENV = "production"
  /\ authCall.key = Null
  /\ authCall.result.status = 401
  /\ authCall.trace = <<"extractApiKey">>

\* C16: a call of validateApiKey that starts after the key was revoked
\* returns null, whatever was issued, revoked or deleted since; it returns a
\* row only for a key whose hash is stored with status 'active'; and no key
\* that was revoked is ever stored with status 'active' again.
C16_RevokedNeverValidates ==
  [][/\ (authCall = NoAuthCall /\ authCall'.fn = "validateApiKey") =>
          /\ hashApiKey(authCall'.key) \in revoked => authCall'.rows = {}
          /\ authCall'.rows # {} => KeyIsActive(authCall'.key)
     /\ \A k \in api_keys' :
          k.key_hash \in revoked' => k.status # "active"]_vars

\* the first key was revoked and then deleted, a second key is active, and a
\* validation of the first key has returned null
C16_Witness ==
  /\ authCall.fn = "validateApiKey"
  /\ authCall.key = generateApiKey(1)
  /\ hashApiKey(authCall.key) \in revoked
  /\ authCall.rows = {}
  /\ \A k \in api_keys : k.key_hash # hashApiKey(authCall.key)
  /\ \E k \in api_keys : k.status = "active"

\* C17 as claimed: no two rows share an id; a create with the id of a stored
\* row fails and leaves the table unchanged; and a create never succeeds
\* with an id that was assigned to a row before.
C17_IdsUniqueNeverReused ==
  [][/\ \A r1, r2 \in datasets' : r1.id = r2.id => r1 = r2
     /\ \A c \in BagToSet(calls) :
          (Completes(c) /\ c.op = "POST") =>
            /\ (\E r \in datasets : r.id = c.id) =>
                 (returned'.response.status >= 400 /\ datasets' = datasets)
            /\ returned'.response.status = 201 => c.id \notin assigned]_vars

\* the fields a request body carries no value for
Missing(body) ==
  {f \in RequiredFields : f \notin DOMAIN body \/ body[f] = JNull}

\* C18: every stored row has name, source_type, storage_backend and
\* storage_path, after every create and update; a create whose body lacks
\* one of the four is answered with an error and stores no row.
C18_RequiredFieldsPresent ==
  [][/\ \A r \in datasets' : \A f \in RequiredFields : r[f] # Null
     /\ \A c \in BagToSet(calls) :
          (Completes(c) /\ c.op = "POST" /\ Missing(c.body) # {}) =>
            /\ returned'.response.status >= 400
            /\ DOMAIN returned'.response.body = {"error"}
            /\ datasets' = datasets]_vars

\* a create without storage_path has been answered 500 and its id is not
\* stored, while another row is
C18_Witness ==
  /\ returned.op = "POST"
  /\ returned.response.status = 500
  /\ Missing(returned.body) = {"storage_path"}
  /\ datasets # {}
  /\ \A r \in datasets : r.id # returned.id

\* C19 as claimed: every stored row has updated_at >= created_at, and a
\* PATCH answered 200 leaves the row with an updated_at other than the one
\* it had.
C19_UpdatedAtAdvances ==
  [][/\ \A r \in datasets' : r.updated_at >= r.created_at
     /\ \A c \in BagToSet(calls) :
          (Completes(c) /\ c.op = "PATCH" /\ returned'.response.status = 200) =>
            \A r \in datasets, r2 \in datasets' :
              (r.id = c.id /\ r2.id = c.id) => r2.updated_at # r.updated_at]_vars

\* the fields a PATCH may set
AllowListed ==
  {"name", "version", "description", "source_config", "collection_params",
   "item_count", "total_size_bytes", "storage_path", "host", "owner", "tags",
   "status", "checksum"}

\* the fields no PATCH sets
Immutable ==
  {"id", "source_type", "storage_backend", "collected_at", "collected_by",
   "created_at", "schema_version"}

\* C20: a PATCH changes, in the row it addresses, only the allow-listed
\* fields its body carries and updated_at (the derived search representation
\* follows them); the immutable fields, the allow-listed fields the body does
\* not carry and every other row are unchanged, whatever else the body holds.
C20_PatchChangesOnlyAllowListed ==
  [][\A c \in BagToSet(calls) :
       (Completes(c) /\ c.op = "PATCH") =>
         LET settable == (AllowListed \cap DOMAIN c.body) \cup {"updated_at"}
         IN  /\ {r \in datasets' : r.id # c.id} = {r \in datasets : r.id # c.id}
             /\ {r.id : r \in datasets'} = {r.id : r \in datasets}
             /\ \A r \in datasets, r2 \in datasets' :
                  (r.id = c.id /\ r2.id = c.id) =>
                    /\ \A f \in Immutable : r2[f] = r[f]
                    /\ \A f \in (DOMAIN r \ {"search_vector"}) \ settable :
                         r2[f] = r[f]
                    /\ r2 = datasets_search_vector_update(r2)]_vars

\* a PATCH whose body names source_type, id and created_at beside name and
\* owner has been answered 200: the row has the new name and its old
\* source_type, and the other row is stored as it was created
C20_Witness ==
  /\ returned.op = "PATCH"
  /\ returned.response.status = 200
  /\ {"source_type", "id", "created_at", "name"} \subseteq DOMAIN returned.body
  /\ Cardinality(datasets) = 2
  /\ \E r \in datasets :
       /\ r.id = returned.id
       /\ r.name = w_docs
       /\ r.source_type = w_wiki
       /\ r.updated_at # r.created_at

-----------------------------------------------------------------------------
(* The claims on the contents of the catalog *)

w_deleted == <<"d", "e", "l", "e", "t", "e", "d">>

\* C21 as claimed: the status of every stored row is active, archived or
\* deleted, after every create and update; a create whose body has no status
\* stores the row with status active.
C21_StatusIsOneOfThree ==
  [][/\ \A r \in datasets' : r.status \in {w_active, w_archived, w_deleted}
     /\ \A c \in BagToSet(calls) :
          (/\ Completes(c) /\ c.op = "POST"
           /\ "status" \notin DOMAIN c.body
           /\ returned'.response.status = 201) =>
            \E r \in datasets' : r.id = c.id /\ r.status = w_active]_vars

\* the weighted index of the current name, description, tags and owner
WeightedIndex(r) ==
  {[lexeme |-> l, weight |-> "A"] : l \in to_tsvector(Coalesce(r.name))}
    \cup {[lexeme |-> l, weight |-> "B"] :
            l \in to_tsvector(Coalesce(r.description))}
    \cup {[lexeme |-> l, weight |-> "C"] :
            l \in to_tsvector(Coalesce(Join(r.tags, " ")))}
    \cup {[lexeme |-> l, weight |-> "D"] : l \in to_tsvector(Coalesce(r.owner))}

\* C22: after every create and update the stored search representation of
\* every row is the weighted index of the row's current name, description,
\* tags and owner; and the page a search returns holds exactly the stored
\* rows whose current fields match q, never a row for a value it had before.
C22_SearchVectorCurrent ==
  [][/\ \A r \in datasets' : r.search_vector = WeightedIndex(r)
     /\ (pc = "page" /\ pc' = "done" /\ response'.status = 200) =>
          ItemIds(response'.body.items) =
            {r.id : r \in {x \in datasets :
                             TsMatch(WeightedIndex(x),
                                     plainto_tsquery(searchParams.q))}}]_vars

\* the row was created as 'data' and renamed 'docs', and a search for docs
\* has returned it under its new name
C22_Witness ==
  /\ pc = "done"
  /\ searchParams.q = w_docs
  /\ response.status = 200
  /\ Len(response.body.items) = 1
  /\ response.body.items[1].name = w_docs
  /\ returned.op = "PATCH" /\ returned.response.status = 200

-----------------------------------------------------------------------------
(* The claims on the statements the handlers send *)

\* the filters a search request supplies, in the order the handler reads them
SuppliedFilters ==
  LET Given(column) == Supplied(searchParams[column])
  IN  SelectSeq(<<"source_type", "status", "owner", "tags">>, Given)

\* the value a request gives for a filter; tags is a comma-separated list
FilterValue(column) ==
  IF column = "tags" THEN Split(searchParams.tags, ",")
  ELSE searchParams[column]

\* C23: once the query is built, the first condition is the text match of
\* the chosen mode on $1, which is bound to q; the k-th condition is on the
\* k-th supplied filter, uses placeholder $k, and the k-th parameter is that
\* filter's value; the count query is sent with exactly these parameters and
\* the page query with them followed by limit and offset, its LIMIT and
\* OFFSET placeholders being the last two indices.
C23_PlaceholdersMatchParameters ==
  conditions # <<>> =>
    LET columns == <<"search_vector">> \o SuppliedFilters
    IN  /\ Len(conditions) = Len(columns)
        /\ Len(params) = Len(columns)
        /\ conditions[1].kind =
             (IF IsFuzzy(searchParams) THEN "trgm_or_tsquery" ELSE "tsquery")
        /\ params[1] = searchParams.q
        /\ \A k \in DOMAIN conditions :
             /\ conditions[k].column = columns[k]
             /\ conditions[k].ph = k
             /\ k > 1 => params[k] = FilterValue(columns[k])
        /\ \A i \in DOMAIN issued :
             /\ issued[i].where = conditions
             /\ issued[i].sql = "count" => issued[i].params = params
             /\ issued[i].sql = "page" =>
                  /\ issued[i].params = params \o <<local.limit, local.offset>>
                  /\ issued[i].limitPh = Len(params) + 1
                  /\ issued[i].offsetPh = Len(params) + 2

\* a fuzzy search with all four filters, a limit and an offset has sent both
\* of its queries
C23_Witness ==
  /\ pc = "done"
  /\ IsFuzzy(searchParams)
  /\ Len(SuppliedFilters) = 4
  /\ Len(issued) = 2
  /\ issued[2].sql = "page"
  /\ Len(issued[2].params) = 7
  /\ local.limit # local.offset

\* the body is a JSON object
IsObjectBody(body) == "t" \notin DOMAIN body

-----------------------------------------------------------------------------
(* The claims on deletion and on reads beside writes *)

NotFound == [status |-> 404, body |-> [error |-> <<"Dataset not found">>]]

\* a DELETE answered 204 leaves no row with its id
RemovedOutright ==
  (/\ returned' # returned
   /\ returned'.op = "DELETE"
   /\ returned'.response.status = 204) =>
    \A x \in datasets' : x.id # returned'.id

\* the pages of list and search hold rows that are stored when the page is
\* read, so none that was deleted before
PagesHoldStoredRows ==
  /\ (/\ returned' # returned
      /\ returned'.op = "LIST"
      /\ returned'.response.status = 200) =>
       \A i \in DOMAIN returned'.response.body.items :
         returned'.response.body.items[i] \in datasets
  /\ (pc = "page" /\ pc' = "done" /\ response'.status = 200) =>
       ItemIds(response'.body.items) \subseteq {x.id : x \in datasets}

\* a GET, PATCH or DELETE that the store has answered for an id without a row
AnsweredForMissingId ==
  /\ returned' # returned
  /\ returned'.op \in {"GET", "PATCH", "DELETE"}
  /\ returned'.response.status # 500
  /\ \A x \in datasets : x.id # returned'.id

\* C25 as claimed: a DELETE answered 204 removes the row; while no row has
\* the id, every GET, PATCH and DELETE of it is answered 404 'Dataset not
\* found' and leaves the table unchanged; list and search return no row that
\* is not stored.
C25_MissingIdIsAlways404 ==
  [][/\ RemovedOutright
     /\ PagesHoldStoredRows
     /\ AnsweredForMissingId =>
          (returned'.response = NotFound /\ datasets' = datasets)]_vars

\* C25, amended: as claimed for GET, DELETE and every PATCH that names an
\* allow-listed field; a PATCH that names none is answered 400 before the
\* table is read, whether the row exists or not, and changes nothing.
C25_MissingIdIs404UnlessNoFields ==
  [][/\ RemovedOutright
     /\ PagesHoldStoredRows
     /\ AnsweredForMissingId =>
          /\ datasets' = datasets
          /\ \/ returned'.response = NotFound
             \/ /\ returned'.op = "PATCH"
                /\ AllowListed \cap DOMAIN returned'.body = {}
                /\ returned'.response.status = 400
                /\ returned'.queries = 0]_vars

\* the row was created and deleted, and a later GET of its id was answered 404
C25_Witness ==
  /\ returned.op = "GET"
  /\ returned.response = NotFound
  /\ returned.id \in assigned
  /\ datasets = {}

-----------------------------------------------------------------------------
(* The claims on failures of the key validation *)

\* C26: validateApiKey returns null for an empty key and sends no lookup for
\* it; it returns null when its lookup fails, and requireApiKey then answers
\* 401; a step that ends a last_used_at update, failed or not, leaves the
\* result of the call in progress, the stored keys and their status as they
\* are, except for last_used_at itself.
C26_ValidationFailsClosed ==
  [][/\ (authCall'.fn = "validateApiKey" /\ authCall'.key \in {<<>>, Null}) =>
          (authCall'.rows = {} /\ authCall'.lookups = 0)
     /\ (authCall'.fn # "none" /\ authCall'.lookups > 0 /\ authCall'.failed) =>
          /\ authCall'.rows = {}
          /\ authCall'.fn = "requireApiKey" => authCall'.result.status = 401
     /\ (pendingTouch' # pendingTouch /\ pendingTouch' \subseteq pendingTouch) =>
          /\ authCall' = authCall
          /\ {[k EXCEPT !.last_used_at = 0] : k \in api_keys'} =
               {[k EXCEPT !.last_used_at = 0] : k \in api_keys}]_vars

\* the lookup for a stored active key has failed inside requireApiKey, which
\* has answered 401
C26_Witness ==
  /\ authCall.fn = "requireApiKey"
  /\ KeyIsActive(authCall.key)
  /\ authCall.failed /\ authCall.lookups = 1
  /\ authCall.rows = {}
  /\ authCall.result.status = 401

-----------------------------------------------------------------------------
(* The claims on reads that take more than one query *)

\* C28: a successful search response has at most limit items and at most
\* max(0, total - offset) items, whatever writes other requests make between
\* the count query and the page query.
C28_ItemsWithinTotal ==
  (Succeeded /\ ~local.limit.nan /\ ~local.offset.nan /\ ~total.nan) =>
    /\ Len(response.body.items) <= local.limit.val
    /\ Len(response.body.items) <=
         (IF total.val > local.offset.val THEN total.val - local.offset.val
          ELSE 0)

\* the sum of the counts of a by_source_type or by_status object
RECURSIVE SumOfCounts(_)
SumOfCounts(counts) ==
  IF DOMAIN counts = {} THEN 0
  ELSE LET k == CHOOSE x \in DOMAIN counts : TRUE
       IN  counts[k].val + SumOfCounts([x \in DOMAIN counts \ {k} |-> counts[x]])

\* C29: in a successful stats response total_datasets is the sum of the
\* by_source_type counts and the sum of the by_status counts, whatever creates
\* and deletes other requests make between the three aggregate queries.
C29_StatsTotalsAgree ==
  (returned.op = "STATS" /\ returned.response.status = 200) =>
    /\ returned.response.body.total_datasets.val =
         SumOfCounts(returned.response.body.by_source_type)
    /\ returned.response.body.total_datasets.val =
         SumOfCounts(returned.response.body.by_status)

-----------------------------------------------------------------------------
(* The claims on the dashboard page *)

\* C27: every router.push of SearchBox comes when the input has stayed
\* unchanged for 300 ms, is the first push since the input last changed,
\* carries the trimmed input as q (no q for a blank input), and comes only
\* when the input differs from the q of the URL.
C27_OnePushPerBurst ==
  [][pushed' # pushed =>
       /\ quiet >= DebounceMs
       /\ burst = 0
       /\ pushed' = Append(pushed, TrimEnd(TrimStart(boxQuery)))
       /\ boxQuery # url]_vars

\* C30: when no load is in flight and none has failed, the dashboard shows
\* the datasets and the total that the API returns for the q of the URL.
C30_LatestQueryShown ==
  (loads = {} /\ shown.error = Null) =>
    /\ shown.datasets = ItemsFor(url).items
    /\ shown.total = ItemsFor(url).total

====
